---- MODULE Spec2Model ----
(***************************************************************************)
(* Resume analyzer: the job matcher (backend/job_matcher.py) and the       *)
(* resume structure extractor (backend/resume_parser.py).                  *)
(*                                                                         *)
(* Text is a sequence of characters.  An ASCII character is the            *)
(* one-character string holding it; an Arabic or Greek letter is the       *)
(* string naming it ("meem", "lam", ..., "Sigma").  S("abc") is the text   *)
(* of an ASCII literal.                                                    *)
(*                                                                         *)
(* Python floats are modelled as exact fractions [n, d] in lowest terms.   *)
(***************************************************************************)
EXTENDS Integers, Sequences, FiniteSets, TLC

VARIABLES matcher, jobs_data, call, result, raised, built, served,
          session_state, attempts

\* built and served record the history of the matcher: the catalog as the
\* constructor left it, and whether a call that reads the catalog has
\* returned since.  session_state is st.session_state of one browser
\* session of the front end, and attempts the history of its analyze button:
\* how often it was pressed, and the last press whose handler ran through.
vars == <<matcher, jobs_data, call, result, raised, built, served, session_state, attempts>>

-----------------------------------------------------------------------------
(* Characters and text                                                     *)

\* The sequence with the elements f[1], ..., f[n].
Seq1(f, n) == SubSeq(f, 1, n)

\* Body(value), with value computed once however often Body uses it (an
\* assignment to a local variable).
Bind(value, Body(_)) == CHOOSE r \in {Body(x) : x \in {value}} : TRUE

S(str) == Seq1([i \in 1..Len(str) |-> SubSeq(str, i, i)], Len(str))

UpperChars == S("ABCDEFGHIJKLMNOPQRSTUVWXYZ")
LowerChars == S("abcdefghijklmnopqrstuvwxyz")
DigitChars == S("0123456789")

Range(f) == {f[i] : i \in DOMAIN f}

AsciiUpper == Range(UpperChars)
AsciiLower == Range(LowerChars)
AsciiDigit == Range(DigitChars)

\* Arabic letters used by the header synonyms of the parser.
ArabicLetters ==
    {"meem", "lam", "khah", "sad", "alef", "heh", "dal", "feh", "beh",
     "reh", "tehmarbuta", "ain", "teh", "yeh", "seen", "ghain", "sheen"}

\* Greek letters: capital alpha and sigma, and the small letters str.lower()
\* gives for them (sigma has two, the second one used at the end of a word).
GreekLetters == {"Alpha", "Sigma", "alpha", "sigma", "finalsigma"}

\* Letters that have a case, and characters that str.lower() skips when it
\* looks for one next to a capital sigma.
Cased == AsciiUpper \cup AsciiLower \cup GreekLetters

CaseIgnorable == {"'", ".", ":", "^"}

\* str.lower() on one character that is not a capital sigma.
LowerChar(c) ==
    IF c \in AsciiUpper
    THEN LowerChars[CHOOSE i \in 1..26 : UpperChars[i] = c]
    ELSE IF c = "Alpha" THEN "alpha"
    ELSE c

\* The capital sigma at i ends a word: going left over the case-ignorable
\* characters there is a cased letter, going right there is none.
FinalSigmaAt(s, i) ==
    /\ \E j \in 1..(i - 1) :
          s[j] \in Cased /\ \A k \in (j + 1)..(i - 1) : s[k] \in CaseIgnorable
    /\ ~\E j \in (i + 1)..Len(s) :
          s[j] \in Cased /\ \A k \in (i + 1)..(j - 1) : s[k] \in CaseIgnorable

\* str.lower()
lower(s) ==
    Seq1([i \in 1..Len(s) |->
             IF s[i] = "Sigma"
             THEN (IF FinalSigmaAt(s, i) THEN "finalsigma" ELSE "sigma")
             ELSE LowerChar(s[i])],
         Len(s))

\* \w of the re module on str patterns (Unicode word characters).
WordChars ==
    AsciiUpper \cup AsciiLower \cup AsciiDigit \cup {"_"} \cup ArabicLetters \cup GreekLetters

IsWordChar(c) == c \in WordChars

\* \s
WhiteChars == {" ", "\n", "\t", "\r", "\f"}

IsSpace(c) == c \in WhiteChars

\* \d
IsDigit(c) == c \in AsciiDigit

\* Python's `s in t` on strings: s occurs as a contiguous piece of t.
In(s, t) ==
    \/ s = <<>>
    \/ \E i \in 1..(Len(t) - Len(s) + 1) :
          t[i] = s[1] /\ SubSeq(t, i, i + Len(s) - 1) = s

\* The least i in lo..hi with P(i); there must be one.
First(lo, hi, P(_)) ==
    CHOOSE i \in lo..hi : P(i) /\ \A k \in lo..(i - 1) : ~P(k)

\* ' '.join(parts)
RECURSIVE Join(_, _)
Join(sep, parts) ==
    IF parts = <<>> THEN <<>>
    ELSE IF Len(parts) = 1 THEN parts[1]
    ELSE parts[1] \o sep \o Join(sep, Tail(parts))

\* The members of a finite set of integers, in increasing order.
RECURSIVE Ascending(_)
Ascending(ns) ==
    IF ns = {} THEN <<>>
    ELSE LET lo == CHOOSE n \in ns : \A k \in ns : n <= k
         IN  <<lo>> \o Ascending(ns \ {lo})

\* Length of the longest run of characters of class cs starting at i.
RunIn(s, i, cs) ==
    IF \A k \in i..Len(s) : s[k] \in cs THEN Len(s) - i + 1
    ELSE First(i, Len(s), LAMBDA k : s[k] \notin cs) - i

\* The maximal runs of characters of class cs in s, in order.
RunsIn(s, cs) ==
    LET starts == Ascending({i \in 1..Len(s) :
                                s[i] \in cs /\ (i = 1 \/ s[i - 1] \notin cs)})
    IN  Seq1([k \in 1..Len(starts) |->
                SubSeq(s, starts[k], starts[k] + RunIn(s, starts[k], cs) - 1)],
             Len(starts))

\* re.findall(r'\b\w+\b', s): the maximal runs of word characters, in order.
WordTokens(s) == RunsIn(s, WordChars)

\* sum(1 for x in xs if x in t)
CountIn(xs, t) == Len(SelectSeq(xs, LAMBDA x : In(x, t)))

-----------------------------------------------------------------------------
(* Exact fractions standing for float values                               *)

RECURSIVE GCD(_, _)
GCD(a, b) == IF b = 0 THEN a ELSE GCD(b, a % b)

Frac(n, d) ==
    LET g == GCD(n, d)
    IN  IF n = 0 THEN [n |-> 0, d |-> 1] ELSE [n |-> n \div g, d |-> d \div g]

FrAdd(a, b) == Frac(a.n * b.d + b.n * a.d, a.d * b.d)
FrMul(a, b) == Frac(a.n * b.n, a.d * b.d)
FrLe(a, b) == a.n * b.d <= b.n * a.d
FrLt(a, b) == a.n * b.d < b.n * a.d
FrMin(a, b) == IF FrLe(a, b) THEN a ELSE b
FrMax(a, b) == IF FrLe(a, b) THEN b ELSE a

Zero == Frac(0, 1)
One == Frac(1, 1)

-----------------------------------------------------------------------------
(* JobMatcher: the catalog                                                 *)

None == [kind |-> "None"]

\* A pandas DataFrame: its rows in index order (index 0 is rows[1]).
DataFrame(rows) == [kind |-> "DataFrame", rows |-> rows]

IsDataFrame(v) == v.kind = "DataFrame"

\* A Python list of posting dicts.
List(rows) == [kind |-> "list", rows |-> rows]

\* DataFrame.empty
empty(df) == df.rows = <<>>

\* len(df)
len(df) == Len(df.rows)

\* The ten postings of _load_default_jobs, in order (DataFrame index 0..9).
_load_default_jobs ==
    <<
      [title |-> S("Senior Software Engineer"),
       company |-> S("TechCorp Dubai"),
       location |-> S("Dubai, UAE"),
       salary |-> S("AED 25,000 - 35,000"),
       experience |-> S("5-8 years"),
       description |-> S("We are looking for a Senior Software Engineer with expertise in Python, JavaScript, and cloud technologies. Experience with AWS, Docker, and microservices architecture is required."),
       requirements |-> S("Python, JavaScript, AWS, Docker, Microservices, React, Node.js, MongoDB, PostgreSQL"),
       job_type |-> S("Full-time"),
       industry |-> S("Technology")],
      [title |-> S("Data Scientist"),
       company |-> S("DataFlow Analytics"),
       location |-> S("Dubai, UAE"),
       salary |-> S("AED 20,000 - 30,000"),
       experience |-> S("3-6 years"),
       description |-> S("Join our data science team to develop machine learning models and analytics solutions. Work with large datasets and implement predictive models."),
       requirements |-> S("Python, Machine Learning, Statistics, SQL, Pandas, Scikit-learn, TensorFlow, Data Analysis"),
       job_type |-> S("Full-time"),
       industry |-> S("Technology")],
      [title |-> S("Marketing Manager"),
       company |-> S("Global Marketing Solutions"),
       location |-> S("Dubai, UAE"),
       salary |-> S("AED 18,000 - 25,000"),
       experience |-> S("4-7 years"),
       description |-> S("Lead marketing campaigns and strategies for our clients in the MENA region. Experience in digital marketing and brand management required."),
       requirements |-> S("Digital Marketing, Brand Management, Social Media, Google Ads, Analytics, Campaign Management"),
       job_type |-> S("Full-time"),
       industry |-> S("Marketing")],
      [title |-> S("Financial Analyst"),
       company |-> S("Dubai Financial Services"),
       location |-> S("Dubai, UAE"),
       salary |-> S("AED 15,000 - 22,000"),
       experience |-> S("2-5 years"),
       description |-> S("Analyze financial data, prepare reports, and provide insights for investment decisions. CFA or similar certification preferred."),
       requirements |-> S("Financial Analysis, Excel, Financial Modeling, CFA, Investment Analysis, Risk Management"),
       job_type |-> S("Full-time"),
       industry |-> S("Finance")],
      [title |-> S("UX/UI Designer"),
       company |-> S("Creative Design Studio"),
       location |-> S("Dubai, UAE"),
       salary |-> S("AED 16,000 - 24,000"),
       experience |-> S("3-6 years"),
       description |-> S("Create user-centered designs for web and mobile applications. Experience with design tools and user research methods required."),
       requirements |-> S("Figma, Adobe Creative Suite, User Research, Prototyping, Wireframing, Design Systems"),
       job_type |-> S("Full-time"),
       industry |-> S("Design")],
      [title |-> S("Project Manager"),
       company |-> S("Construction Solutions Ltd"),
       location |-> S("Dubai, UAE"),
       salary |-> S("AED 20,000 - 28,000"),
       experience |-> S("5-8 years"),
       description |-> S("Manage construction projects from inception to completion. PMP certification and experience in the UAE market preferred."),
       requirements |-> S("Project Management, PMP, Construction, Budget Management, Team Leadership, Risk Management"),
       job_type |-> S("Full-time"),
       industry |-> S("Construction")],
      [title |-> S("Sales Executive"),
       company |-> S("Dubai Trading Company"),
       location |-> S("Dubai, UAE"),
       salary |-> S("AED 8,000 - 15,000"),
       experience |-> S("1-3 years"),
       description |-> S("Generate new business opportunities and maintain relationships with existing clients. Strong communication skills required."),
       requirements |-> S("Sales, Customer Relationship Management, Communication, Negotiation, B2B Sales"),
       job_type |-> S("Full-time"),
       industry |-> S("Sales")],
      [title |-> S("Human Resources Specialist"),
       company |-> S("HR Solutions UAE"),
       location |-> S("Dubai, UAE"),
       salary |-> S("AED 12,000 - 18,000"),
       experience |-> S("3-5 years"),
       description |-> S("Handle recruitment, employee relations, and HR operations. Knowledge of UAE labor law required."),
       requirements |-> S("HR Management, Recruitment, Employee Relations, UAE Labor Law, HRIS, Performance Management"),
       job_type |-> S("Full-time"),
       industry |-> S("Human Resources")],
      [title |-> S("Business Development Manager"),
       company |-> S("Innovation Hub Dubai"),
       location |-> S("Dubai, UAE"),
       salary |-> S("AED 22,000 - 32,000"),
       experience |-> S("4-7 years"),
       description |-> S("Develop strategic partnerships and identify new business opportunities in the technology sector."),
       requirements |-> S("Business Development, Strategic Partnerships, Market Analysis, Negotiation, Technology Industry"),
       job_type |-> S("Full-time"),
       industry |-> S("Business Development")],
      [title |-> S("Content Writer"),
       company |-> S("Digital Content Agency"),
       location |-> S("Dubai, UAE"),
       salary |-> S("AED 8,000 - 12,000"),
       experience |-> S("2-4 years"),
       description |-> S("Create engaging content for websites, blogs, and social media platforms. Experience in SEO and content marketing preferred."),
       requirements |-> S("Content Writing, SEO, Social Media, Copywriting, Content Marketing, WordPress"),
       job_type |-> S("Full-time"),
       industry |-> S("Marketing")]
    >>

\* _prepare_jobs_data adds the combined_text column to a non-empty frame.
\* (The TF-IDF vectors it also fits are read by no other method.)
_prepare_jobs_data(jd) ==
    IF jd # None /\ ~empty(jd)
    THEN DataFrame(Seq1([i \in 1..Len(jd.rows) |->
            [f \in DOMAIN jd.rows[i] \cup {"combined_text"} |->
                IF f = "combined_text"
                THEN jd.rows[i].title \o S(" ") \o jd.rows[i].description \o S(" ")
                     \o jd.rows[i].requirements \o S(" ") \o jd.rows[i].company
                ELSE jd.rows[i][f]]], Len(jd.rows)))
    ELSE jd

\* bool(x) as used by `jobs_data or self._load_default_jobs()`: None and the
\* empty list are false, a non-empty list is true, and the truth value of a
\* DataFrame is ambiguous and raises ValueError.
Truth(x) ==
    IF x = None THEN "False"
    ELSE IF IsDataFrame(x) THEN "ValueError"
    ELSE IF x.rows = <<>> THEN "False" ELSE "True"

\* JobMatcher.__init__: the constructed jobs_data, or the exception raised.
\* _prepare_jobs_data reads jobs_data.empty, which a list does not have.
JobMatcherInit(arg) ==
    IF Truth(arg) = "ValueError"
    THEN [raised |-> "ValueError", jobs_data |-> None]
    ELSE LET chosen == IF Truth(arg) = "True" THEN arg
                       ELSE DataFrame(_load_default_jobs)
         IN  IF IsDataFrame(chosen)
             THEN [raised |-> "none", jobs_data |-> _prepare_jobs_data(chosen)]
             ELSE [raised |-> "AttributeError", jobs_data |-> None]

-----------------------------------------------------------------------------
(* JobMatcher: the four factors and the total score                        *)

\* _calculate_keyword_score dividing by the number of distinct keywords while
\* still counting every occurrence that matches.
_calculate_keyword_score_distinct(resume_text, job) ==
    LET requirements == lower(job.requirements)
        keywords == WordTokens(requirements)
        resume_lower == lower(resume_text)
        matches == CountIn(keywords, resume_lower)
    IN  IF keywords = <<>> THEN Zero
        ELSE Frac(matches, Cardinality(Range(keywords)))

\* _calculate_keyword_score counting a keyword once however often the
\* requirements repeat it (matches taken over set(keywords)).
_calculate_keyword_score_once(resume_text, job) ==
    LET requirements == lower(job.requirements)
        keywords == WordTokens(requirements)
        resume_lower == lower(resume_text)
        matches == Cardinality({k \in Range(keywords) : In(k, resume_lower)})
    IN  IF keywords = <<>> THEN Zero
        ELSE Frac(matches, Len(keywords))

\* _calculate_keyword_score
_calculate_keyword_score(resume_text, job) ==
    LET requirements == lower(job.requirements)
        keywords == WordTokens(requirements)
        resume_lower == lower(resume_text)
        matches == CountIn(keywords, resume_lower)
    IN  IF keywords = <<>> THEN Zero
        ELSE Frac(matches, Len(keywords))

\* _calculate_title_match
_calculate_title_match(resume_text, job_title) ==
    LET title_keywords == WordTokens(lower(job_title))
        resume_lower == lower(resume_text)
        matches == CountIn(title_keywords, resume_lower)
    IN  IF title_keywords = <<>> THEN Zero
        ELSE Frac(matches, Len(title_keywords))

technical_skills ==
    << S("python"), S("javascript"), S("java"), S("c++"), S("c#"), S("php"),
       S("ruby"), S("go"), S("rust"),
       S("html"), S("css"), S("react"), S("angular"), S("vue"), S("node.js"),
       S("express"), S("django"),
       S("flask"), S("spring"), S("laravel"), S("sql"), S("mongodb"),
       S("postgresql"), S("mysql"),
       S("aws"), S("azure"), S("gcp"), S("docker"), S("kubernetes"), S("git"),
       S("jenkins"),
       S("machine learning"), S("ai"), S("data science"), S("analytics"),
       S("tableau"),
       S("excel"), S("power bi"), S("spark"), S("hadoop"), S("tensorflow"),
       S("pytorch") >>

\* [x for x in xs if x in t]
FilterIn(xs, t) == SelectSeq(xs, LAMBDA x : In(x, t))

\* _calculate_skills_match taking as job skills only the vocabulary terms that
\* the resume has too.
_calculate_skills_match_overlap(resume_text, job_requirements) ==
    LET req_lower == lower(job_requirements)
        resume_lower == lower(resume_text)
        job_skills == FilterIn(FilterIn(technical_skills, req_lower), resume_lower)
        matches == CountIn(job_skills, resume_lower)
    IN  IF job_skills = <<>> THEN Zero
        ELSE Frac(matches, Len(job_skills))

\* _calculate_skills_match counting every vocabulary term of the resume,
\* whether the posting asks for it or not.
_calculate_skills_match_any_skill(resume_text, job_requirements) ==
    LET req_lower == lower(job_requirements)
        job_skills == FilterIn(technical_skills, req_lower)
        resume_lower == lower(resume_text)
        matches == CountIn(technical_skills, resume_lower)
    IN  IF job_skills = <<>> THEN Zero
        ELSE Frac(matches, Len(job_skills))

\* _calculate_skills_match
_calculate_skills_match(resume_text, job_requirements) ==
    LET req_lower == lower(job_requirements)
        job_skills == FilterIn(technical_skills, req_lower)
        resume_lower == lower(resume_text)
        matches == CountIn(job_skills, resume_lower)
    IN  IF job_skills = <<>> THEN Zero
        ELSE Frac(matches, Len(job_skills))

\* int() of a run of ASCII digits
RECURSIVE int(_)
int(ds) ==
    IF ds = <<>> THEN 0
    ELSE 10 * int(SubSeq(ds, 1, Len(ds) - 1))
         + ((CHOOSE k \in 1..10 : DigitChars[k] = ds[Len(ds)]) - 1)

\* Length of the longest run of digits / of [-\s] / of \s starting at i.
DigitRun(s, i) == RunIn(s, i, AsciiDigit)

DashSpaceRun(s, i) == RunIn(s, i, {"-"} \cup WhiteChars)

SpaceRun(s, i) == RunIn(s, i, WhiteChars)

\* The ways r'(\d+)[\-\s]*(\d+)?\s*years?' matches s starting at position i:
\* g1 digits, then sep characters of [-\s], then g2 digits (0: group 2 did
\* not take part), then sp whitespace characters, then "year" (the final s?
\* never decides whether there is a match).
ExpMatchesAt(s, i) ==
    UNION { UNION { UNION {
        { [g1 |-> g1, sep |-> sep, g2 |-> g2, sp |-> sp] :
            sp \in { x \in 0..SpaceRun(s, i + g1 + sep + g2) :
                       LET p == i + g1 + sep + g2 + x
                       IN  p + 3 <= Len(s) /\ SubSeq(s, p, p + 3) = S("year") } }
        : g2 \in 0..DigitRun(s, i + g1 + sep) }
        : sep \in 0..DashSpaceRun(s, i + g1) }
        : g1 \in 1..DigitRun(s, i) }

\* The match the backtracking engine reports at i: each greedy quantifier
\* takes the most it can, earlier quantifiers first.
ExpPrefer(m1, m2) ==
    \/ m1.g1 > m2.g1
    \/ m1.g1 = m2.g1 /\ m1.sep > m2.sep
    \/ m1.g1 = m2.g1 /\ m1.sep = m2.sep /\ m1.g2 > m2.g2
    \/ m1.g1 = m2.g1 /\ m1.sep = m2.sep /\ m1.g2 = m2.g2 /\ m1.sp >= m2.sp

NoMatch == [matched |-> FALSE]

\* re.search(r'(\d+)[\-\s]*(\d+)?\s*years?', s): the groups of the leftmost
\* match, or NoMatch.  group2 is the empty text when group 2 did not take
\* part in the match (a group that took part holds at least one digit).
ExpSearch(s) ==
    LET StartsAt(i) == IsDigit(s[i]) /\ ExpMatchesAt(s, i) # {}
    IN  IF ~\E i \in 1..Len(s) : StartsAt(i) THEN NoMatch
        ELSE LET i == First(1, Len(s), StartsAt)
                 ms == ExpMatchesAt(s, i)
                 m == CHOOSE m1 \in ms : \A m2 \in ms : ExpPrefer(m1, m2)
             IN  [matched |-> TRUE,
                  group1 |-> SubSeq(s, i, i + m.g1 - 1),
                  group2 |-> SubSeq(s, i + m.g1 + m.sep, i + m.g1 + m.sep + m.g2 - 1)]

experience_indicators ==
    << S("years of experience"), S("years experience"), S("worked for"),
       S("employed for"), S("experience in"), S("professional experience"),
       S("work history") >>

\* _calculate_experience_match using the years it parsed: the flat 0.8 only
\* for a posting that asks for at most three years, 0.5 for one that asks for
\* more.
_calculate_experience_match_by_years(resume_text, job_experience) ==
    LET exp_match == ExpSearch(lower(job_experience))
        min_years == int(exp_match.group1)
        resume_lower == lower(resume_text)
        has_experience == \E k \in 1..Len(experience_indicators) :
                              In(experience_indicators[k], resume_lower)
    IN  IF ~exp_match.matched THEN Frac(5, 10)
        ELSE IF ~has_experience THEN Zero
        ELSE IF min_years <= 3 THEN Frac(8, 10) ELSE Frac(5, 10)

\* _calculate_experience_match
_calculate_experience_match(resume_text, job_experience) ==
    LET exp_match == ExpSearch(lower(job_experience))
        min_years == int(exp_match.group1)
        max_years == IF exp_match.group2 # <<>> THEN int(exp_match.group2)
                     ELSE min_years + 2
        resume_lower == lower(resume_text)
        has_experience == \E k \in 1..Len(experience_indicators) :
                              In(experience_indicators[k], resume_lower)
    IN  IF ~exp_match.matched THEN Frac(5, 10)
        ELSE IF ~has_experience THEN Zero
        ELSE Frac(8, 10)

\* The factor scores _calculate_job_match_score computes on its way.
FactorScores(resume_text, job) ==
    [keyword_score |-> _calculate_keyword_score(resume_text, job),
     title_score |-> _calculate_title_match(resume_text, job.title),
     skills_score |-> _calculate_skills_match(resume_text, job.requirements),
     experience_score |-> _calculate_experience_match(resume_text, job.experience)]

\* The keyword weight raised to one half, the other weights left as they are.
KeywordWeight_half == Frac(5, 10)

KeywordWeight == Frac(4, 10)
TitleWeight == Frac(2, 10)
SkillsWeight == Frac(25, 100)
ExperienceWeight == Frac(15, 100)

\* score += factor * weight, four times, from 0.0
WeightedSum(f) ==
    FrAdd(FrAdd(FrAdd(FrAdd(Zero,
        FrMul(f.keyword_score, KeywordWeight)),
        FrMul(f.title_score, TitleWeight)),
        FrMul(f.skills_score, SkillsWeight)),
        FrMul(f.experience_score, ExperienceWeight))

\* _calculate_job_match_score
_calculate_job_match_score(resume_text, job) ==
    FrMin(One, FrMax(Zero, WeightedSum(FactorScores(resume_text, job))))

-----------------------------------------------------------------------------
(* JobMatcher: ranking and catalog operations                              *)

\* dict.get(key, default)
Get(d, key, default) == IF key \in DOMAIN d THEN d[key] ELSE default

\* text_parts for a list of entry dicts: two parts per entry.
RECURSIVE EntryParts(_, _, _)
EntryParts(entries, k1, k2) ==
    IF entries = <<>> THEN <<>>
    ELSE <<Get(Head(entries), k1, <<>>), Get(Head(entries), k2, <<>>)>>
         \o EntryParts(Tail(entries), k1, k2)

\* _prepare_resume_text (every entry the parser produces is a dict)
_prepare_resume_text(resume_data) ==
    LET name == Get(resume_data, "name", <<>>)
        summary == Get(resume_data, "summary", <<>>)
        skills == Get(resume_data, "skills", <<>>)
        raw_text == Get(resume_data, "raw_text", <<>>)
        text_parts ==
            (IF name # <<>> THEN <<name>> ELSE <<>>)
            \o (IF summary # <<>> THEN <<summary>> ELSE <<>>)
            \o skills
            \o EntryParts(Get(resume_data, "experience", <<>>), "title", "description")
            \o EntryParts(Get(resume_data, "education", <<>>), "degree", "institution")
            \o EntryParts(Get(resume_data, "projects", <<>>), "title", "description")
            \o (IF raw_text # <<>> THEN <<raw_text>> ELSE <<>>)
    IN  Join(S(" "), text_parts)

\* round(score * 100, 1), the nearest tenth (a tie goes to the even tenth).
Round1(x) ==
    LET num == x.n * 1000
        q == num \div x.d
        r == num % x.d
        tenths == IF 2 * r < x.d THEN q
                  ELSE IF 2 * r > x.d THEN q + 1
                  ELSE IF q % 2 = 0 THEN q ELSE q + 1
    IN  Frac(tenths, 10)

\* The match_info dict built for the posting at DataFrame index idx.
MatchInfo(idx, job, score) ==
    [job_id |-> idx,
     title |-> job.title,
     company |-> job.company,
     location |-> job.location,
     salary |-> job.salary,
     experience |-> job.experience,
     description |-> job.description,
     requirements |-> job.requirements,
     job_type |-> job.job_type,
     industry |-> job.industry,
     match_score |-> score,
     match_percentage |-> Round1(score)]

\* list.sort(key=lambda x: x['match_score'], reverse=True): a stable sort,
\* equal keys keep the order they had in the list.
\* An insertion that puts x before the elements whose key equals its own.
RECURSIVE InsertDesc_before_equal(_, _)
InsertDesc_before_equal(sorted, x) ==
    IF sorted = <<>> THEN <<x>>
    ELSE IF FrLe(Head(sorted).match_score, x.match_score)
         THEN <<x>> \o sorted
         ELSE <<Head(sorted)>> \o InsertDesc_before_equal(Tail(sorted), x)

RECURSIVE InsertDesc(_, _)
InsertDesc(sorted, x) ==
    IF sorted = <<>> THEN <<x>>
    ELSE IF FrLt(Head(sorted).match_score, x.match_score)
         THEN <<x>> \o sorted
         ELSE <<Head(sorted)>> \o InsertDesc(Tail(sorted), x)

RECURSIVE SortDesc(_)
SortDesc(ms) ==
    IF ms = <<>> THEN <<>>
    ELSE InsertDesc(SortDesc(SubSeq(ms, 1, Len(ms) - 1)), ms[Len(ms)])

\* xs[:n + 1]: a slice that keeps one element more.
SliceTo_inclusive(xs, n) ==
    IF n + 1 >= 0
    THEN SubSeq(xs, 1, IF n + 1 < Len(xs) THEN n + 1 ELSE Len(xs))
    ELSE SubSeq(xs, 1, IF Len(xs) + n + 1 > 0 THEN Len(xs) + n + 1 ELSE 0)

\* xs[:n], for any integer n
SliceTo(xs, n) ==
    IF n >= 0
    THEN SubSeq(xs, 1, IF n < Len(xs) THEN n ELSE Len(xs))
    ELSE SubSeq(xs, 1, IF Len(xs) + n > 0 THEN Len(xs) + n ELSE 0)

\* The list `matches` without the match_info of the last posting.
ScoreAll_last_skipped(jd, resume_text) ==
    Seq1([i \in 1..(Len(jd.rows) - 1) |->
             MatchInfo(i - 1, jd.rows[i],
                       _calculate_job_match_score(resume_text, jd.rows[i]))],
         Len(jd.rows) - 1)

\* The list `matches` of match_resume_to_jobs before it is sorted.
ScoreAll(jd, resume_text) ==
    Seq1([i \in 1..Len(jd.rows) |->
             MatchInfo(i - 1, jd.rows[i],
                       _calculate_job_match_score(resume_text, jd.rows[i]))],
         Len(jd.rows))

\* match_resume_to_jobs from `resume_text = ...` to `matches.sort(...)`: the
\* sorted list of one match_info per posting.
SortedMatches(jd, resume_data) ==
    LET resume_text == _prepare_resume_text(resume_data)
    IN  SortDesc(ScoreAll(jd, resume_text))

\* match_resume_to_jobs given its sorted list: the guard on the catalog and
\* the final slice.
TopMatches(jd, matches, top_n) ==
    IF jd = None \/ empty(jd) THEN <<>>
    ELSE SliceTo(matches, top_n)

\* match_resume_to_jobs
match_resume_to_jobs(jd, resume_data, top_n) ==
    TopMatches(jd, SortedMatches(jd, resume_data), top_n)

JobFields ==
    {"title", "company", "location", "salary", "experience", "description",
     "requirements", "job_type", "industry"}

\* The dict of the nine posting fields of a row.
JobDict(job) == [f \in JobFields |-> job[f]]

EmptyDict == <<>>

\* get_job_details: the dict returned, or the exception raised.  iloc takes a
\* negative position from the end and raises IndexError beyond either end.
get_job_details(jd, job_id) ==
    IF jd = None \/ job_id >= len(jd)
    THEN [raised |-> "none", value |-> EmptyDict]
    ELSE IF job_id >= 0
         THEN [raised |-> "none", value |-> JobDict(jd.rows[job_id + 1])]
         ELSE IF job_id >= 0 - len(jd)
              THEN [raised |-> "none", value |-> JobDict(jd.rows[len(jd) + job_id + 1])]
              ELSE [raised |-> "IndexError", value |-> EmptyDict]

\* The rows of a frame that satisfy Keep, each made by Make, in index order
\* (the loop over iterrows() that appends on a condition).
SelectRows(rows, Keep(_), Make(_, _)) ==
    LET kept == Ascending({i \in 1..Len(rows) : Keep(rows[i])})
    IN  Seq1([k \in 1..Len(kept) |-> Make(kept[k] - 1, rows[kept[k]])], Len(kept))

\* search_jobs looking at the title, the company and the description only.
search_jobs_without_requirements(jd, query, top_n) ==
    IF jd = None \/ empty(jd) THEN <<>>
    ELSE LET query_lower == lower(query)
             Hit(job) ==
                 LET title_match == In(query_lower, lower(job.title))
                     company_match == In(query_lower, lower(job.company))
                     desc_match == In(query_lower, lower(job.description))
                 IN  title_match \/ company_match \/ desc_match
             Info(idx, job) == [f \in JobFields \cup {"job_id"} |->
                                   IF f = "job_id" THEN idx ELSE job[f]]
             matches == SelectRows(jd.rows, Hit, Info)
         IN  SliceTo(matches, top_n)

\* search_jobs
search_jobs(jd, query, top_n) ==
    IF jd = None \/ empty(jd) THEN <<>>
    ELSE LET query_lower == lower(query)
             Hit(job) ==
                 LET title_match == In(query_lower, lower(job.title))
                     company_match == In(query_lower, lower(job.company))
                     desc_match == In(query_lower, lower(job.description))
                     req_match == In(query_lower, lower(job.requirements))
                 IN  title_match \/ company_match \/ desc_match \/ req_match
             Info(idx, job) == [f \in JobFields \cup {"job_id"} |->
                                   IF f = "job_id" THEN idx ELSE job[f]]
             matches == SelectRows(jd.rows, Hit, Info)
         IN  SliceTo(matches, top_n)

\* get_jobs_by_industry: to_dict('records') gives every column of the row.
get_jobs_by_industry(jd, industry) ==
    IF jd = None \/ empty(jd) THEN <<>>
    ELSE LET SameIndustry(job) == lower(job.industry) = lower(industry)
             Record(idx, job) == job
         IN  SelectRows(jd.rows, SameIndustry, Record)

\* Series.unique(): the distinct values in order of first appearance.
RECURSIVE unique(_)
unique(xs) ==
    IF xs = <<>> THEN <<>>
    ELSE LET rest == unique(SubSeq(xs, 1, Len(xs) - 1))
             x == xs[Len(xs)]
         IN  IF \E k \in 1..Len(rest) : rest[k] = x THEN rest ELSE Append(rest, x)

\* get_available_industries
get_available_industries(jd) ==
    IF jd = None \/ empty(jd) THEN <<>>
    ELSE unique(Seq1([i \in 1..Len(jd.rows) |-> jd.rows[i].industry], Len(jd.rows)))

-----------------------------------------------------------------------------
(* ResumeParser: text utilities                                            *)

\* str.strip()
strip(s) ==
    IF \A i \in 1..Len(s) : IsSpace(s[i]) THEN <<>>
    ELSE SubSeq(s, First(1, Len(s), LAMBDA i : ~IsSpace(s[i])),
                   CHOOSE i \in 1..Len(s) :
                       ~IsSpace(s[i]) /\ \A k \in (i + 1)..Len(s) : IsSpace(s[k]))

\* The pieces of s between the characters of seps, empty pieces included
\* (str.split(c), and re.split on a one-character class).
SplitOn(s, seps) ==
    LET cuts == Ascending({i \in 1..Len(s) : s[i] \in seps})
        From(k) == IF k = 1 THEN 1 ELSE cuts[k - 1] + 1
        To(k) == IF k = Len(cuts) + 1 THEN Len(s) ELSE cuts[k] - 1
    IN  Seq1([k \in 1..(Len(cuts) + 1) |-> SubSeq(s, From(k), To(k))], Len(cuts) + 1)

\* str.split(): the maximal runs of non-whitespace characters.
split(s) == RunsIn(s, Range(s) \ WhiteChars)

\* Length of the longest run of whitespace starting at i.
WhiteRun(s, i) == RunIn(s, i, WhiteChars)

\* \b between positions i-1 and i of s.
WordAt(s, i) == i >= 1 /\ i <= Len(s) /\ IsWordChar(s[i])
Boundary(s, i) == WordAt(s, i - 1) # WordAt(s, i)

-----------------------------------------------------------------------------
(* ResumeParser: _clean_text                                               *)

\* Every run of whitespace becomes its first character.
CollapseWhitespace_first_kept(s) ==
    SelectSeq([i \in 1..Len(s) |->
                  IF IsSpace(s[i]) /\ i > 1 /\ IsSpace(s[i - 1]) THEN "dropped" ELSE s[i]],
              LAMBDA c : c # "dropped")

\* re.sub(r'\s+', ' ', text): every run of whitespace becomes one space.
CollapseWhitespace(s) ==
    LET Dropped == "dropped"
        marked == [i \in 1..Len(s) |->
                      IF ~IsSpace(s[i]) THEN s[i]
                      ELSE IF i > 1 /\ IsSpace(s[i - 1]) THEN Dropped
                      ELSE " "]
    IN  SelectSeq(marked, LAMBDA c : c # Dropped)

\* The characters the second re.sub of _clean_text keeps: \w, \s, the Arabic
\* blocks, and - . , ; : ! ? ( )
Allowed(c) ==
    \/ IsWordChar(c)
    \/ IsSpace(c)
    \/ c \in ArabicLetters
    \/ c \in {"-", ".", ",", ";", ":", "!", "?", "(", ")"}

\* re.sub(r'[^...]', '', text): the kept characters of s, in order.
KeepAllowed(s) == SelectSeq(s, Allowed)

_clean_text(text) == strip(KeepAllowed(CollapseWhitespace(text)))

-----------------------------------------------------------------------------
(* ResumeParser: _extract_contact_info                                     *)

EmailLocalClass == AsciiUpper \cup AsciiLower \cup AsciiDigit \cup {".", "_", "%", "+", "-"}
EmailDomainClass == AsciiUpper \cup AsciiLower \cup AsciiDigit \cup {".", "-"}
EmailTldClass == AsciiUpper \cup AsciiLower \cup {"|"}

\* The ways r'\b[A-Za-z0-9._%+-]+@[A-Za-z0-9.-]+\.[A-Z|a-z]{2,}\b' matches
\* s starting at i: the local part is the whole run up to the @, the domain
\* takes dom characters, then a dot, then tld characters.
EmailMatchesAt(s, i) ==
    LET loc == RunIn(s, i, EmailLocalClass)
        at == i + loc
    IN  IF ~(s[i] \in EmailLocalClass /\ Boundary(s, i) /\ at <= Len(s) /\ s[at] = "@")
        THEN {}
        ELSE UNION {
               { [dom |-> dom, tld |-> tld] :
                   tld \in { t \in 2..RunIn(s, at + dom + 2, EmailTldClass) :
                               Boundary(s, at + dom + 2 + t) } }
               : dom \in { d \in 1..RunIn(s, at + 1, EmailDomainClass) :
                             at + d + 1 <= Len(s) /\ s[at + d + 1] = "." } }

\* Greedy quantifiers: the longest domain first, then the longest ending.
EmailPrefer(m1, m2) ==
    m1.dom > m2.dom \/ (m1.dom = m2.dom /\ m1.tld >= m2.tld)

\* re.search(email_pattern, text): the text of the leftmost match.
EmailSearch(s) ==
    LET StartsAt(i) == EmailMatchesAt(s, i) # {}
    IN  IF ~\E i \in 1..Len(s) : StartsAt(i) THEN NoMatch
        ELSE LET i == First(1, Len(s), StartsAt)
                 ms == EmailMatchesAt(s, i)
                 m == CHOOSE m1 \in ms : \A m2 \in ms : EmailPrefer(m1, m2)
                 at == i + RunIn(s, i, EmailLocalClass)
             IN  [matched |-> TRUE, group |-> SubSeq(s, i, at + m.dom + 1 + m.tld)]

PhoneClass == AsciiDigit \cup WhiteChars \cup {"-", "(", ")"}

\* re.search(r'\+?[\d\s\-\(\)]{10,}', s) when plus, and
\* re.search(r'[\d\s\-\(\)]{10,}', s) otherwise.
PhoneSearch(s, plus) ==
    LET Starts(i) ==
            \/ plus /\ s[i] = "+" /\ RunIn(s, i + 1, PhoneClass) >= 10
            \/ s[i] \in PhoneClass /\ RunIn(s, i, PhoneClass) >= 10
    IN  IF ~\E i \in 1..Len(s) : Starts(i) THEN NoMatch
        ELSE LET i == First(1, Len(s), Starts)
                 from == IF plus /\ s[i] = "+" /\ RunIn(s, i + 1, PhoneClass) >= 10
                         THEN i + 1 ELSE i
             IN  [matched |-> TRUE,
                  group |-> SubSeq(s, i, from + RunIn(s, from, PhoneClass) - 1)]

LinkedinClass == AsciiUpper \cup AsciiLower \cup AsciiDigit \cup {"_", "-"} \cup ArabicLetters

\* re.search(r'linkedin\.com/in/[\w\-]+', s)
LinkedinSearch(s) ==
    LET lit == S("linkedin.com/in/")
        last == Len(s) - Len(lit) + 1
        StartsAt(i) == /\ s[i] = lit[1]
                       /\ SubSeq(s, i, i + Len(lit) - 1) = lit
                       /\ RunIn(s, i + Len(lit), LinkedinClass) >= 1
    IN  IF ~\E i \in 1..last : StartsAt(i) THEN NoMatch
        ELSE LET i == First(1, last, StartsAt)
             IN  [matched |-> TRUE,
                  group |-> SubSeq(s, i, i + Len(lit) + RunIn(s, i + Len(lit), LinkedinClass) - 1)]

\* One key of a dict.
Entry(key, value) == [k \in {key} |-> value]

\* _extract_contact_info: a dict holding only the keys that were found.
\* _extract_contact_info storing every key, with an empty value when its
\* pattern has no match.
_extract_contact_info_all_keys(text) ==
    Bind(EmailSearch(text), LAMBDA email_match :
    Bind(PhoneSearch(text, TRUE), LAMBDA phone1 :
    Bind(IF phone1.matched THEN phone1 ELSE PhoneSearch(text, FALSE), LAMBDA phone_match :
    Bind(LinkedinSearch(text), LAMBDA linkedin_match :
        [email |-> IF email_match.matched THEN email_match.group ELSE <<>>,
         phone |-> IF phone_match.matched
                   THEN Bind(phone_match.group, LAMBDA group : strip(group))
                   ELSE <<>>,
         linkedin |-> IF linkedin_match.matched THEN linkedin_match.group ELSE <<>>]))))

\* _extract_contact_info: the first phone pattern that matches is used.
_extract_contact_info(text) ==
    Bind(EmailSearch(text), LAMBDA email_match :
    Bind(PhoneSearch(text, TRUE), LAMBDA phone1 :
    Bind(IF phone1.matched THEN phone1 ELSE PhoneSearch(text, FALSE), LAMBDA phone_match :
    Bind(LinkedinSearch(text), LAMBDA linkedin_match :
        (IF email_match.matched THEN Entry("email", email_match.group) ELSE <<>>)
        @@ (IF phone_match.matched
            THEN Bind(phone_match.group, LAMBDA group : Entry("phone", strip(group)))
            ELSE <<>>)
        @@ (IF linkedin_match.matched THEN Entry("linkedin", linkedin_match.group)
            ELSE <<>>)))))

-----------------------------------------------------------------------------
(* ResumeParser: name, sections, records and lists                         *)

name_keywords ==
    << S("resume"), S("cv"), S("curriculum"), S("vitae"), S("experience"),
       S("education"), S("skills") >>

\* _extract_name: the first of the first five lines that passes, stripped.
RECURSIVE FirstName(_)
FirstName(lines) ==
    IF lines = <<>> THEN <<>>
    ELSE LET line == strip(Head(lines))
         IN  IF /\ line # <<>>
                /\ Len(split(line)) <= 4
                /\ ~\E k \in 1..Len(name_keywords) : In(lower(name_keywords[k]), lower(line))
             THEN line
             ELSE FirstName(Tail(lines))

\* _extract_name reading the first six lines.
_extract_name_six_lines(text) ==
    LET lines == SplitOn(text, {"\n"})
    IN  FirstName(SubSeq(lines, 1, IF Len(lines) < 6 THEN Len(lines) ELSE 6))

_extract_name(text) ==
    LET lines == SplitOn(text, {"\n"})
    IN  FirstName(SubSeq(lines, 1, IF Len(lines) < 5 THEN Len(lines) ELSE 5))

AsciiLetter == AsciiUpper \cup AsciiLower

\* $ at position q (the first position not consumed): the end of the text,
\* or just before a newline that ends the text.
AtEnd(s, q) == q = Len(s) + 1 \/ (q = Len(s) /\ s[q] = "\n")

\* \n\s*\n at q
BlankLineAt(s, q) ==
    /\ q <= Len(s) /\ s[q] = "\n"
    /\ \E j \in (q + 1)..Len(s) :
          s[j] = "\n" /\ \A k \in (q + 1)..(j - 1) : IsSpace(s[k])

\* \n\s*[A-Z] at q, under re.IGNORECASE
HeaderAt(s, q) ==
    /\ q <= Len(s) /\ s[q] = "\n"
    /\ \E j \in (q + 1)..Len(s) :
          s[j] \in AsciiLetter /\ \A k \in (q + 1)..(j - 1) : IsSpace(s[k])

\* \n\s*\n\s*[A-Z] at q, under re.IGNORECASE
BlankThenHeaderAt(s, q) ==
    /\ q <= Len(s) /\ s[q] = "\n"
    /\ \E j \in (q + 1)..Len(s) :
          /\ s[j] \in AsciiLetter
          /\ \A k \in (q + 1)..(j - 1) : IsSpace(s[k])
          /\ \E k \in (q + 1)..(j - 1) : s[k] = "\n"

\* The lookahead that ends a section body: (?=\n\s*\n|\n\s*[A-Z]|$) for the
\* summary, (?=\n\s*\n\s*[A-Z]|$) for every other section.
BodyEndsAt(s, q, kind) ==
    IF kind = "summary"
    THEN BlankLineAt(s, q) \/ HeaderAt(s, q) \/ AtEnd(s, q)
    ELSE BlankThenHeaderAt(s, q) \/ AtEnd(s, q)

\* re.search(synonym + r'[:\s]*(.*?)(?=...)', text, re.IGNORECASE | re.DOTALL):
\* group(1) of the leftmost match.  The header is matched without regard to
\* case, [:\s]* takes the whole run after it, and the lazy group stops at the
\* first position where the lookahead holds.
SectionSearch(text, synonym, kind) ==
    LET low == lower(text)
        HeaderAtPos(i) == low[i] = lower(synonym)[1]
                          /\ SubSeq(low, i, i + Len(synonym) - 1) = lower(synonym)
        last == Len(text) - Len(synonym) + 1
    IN  IF ~\E i \in 1..last : HeaderAtPos(i) THEN NoMatch
        ELSE LET i == First(1, last, HeaderAtPos)
                 p == i + Len(synonym)
                 b == p + RunIn(text, p, {":"} \cup WhiteChars)
                 q == First(b, Len(text) + 1, LAMBDA e : BodyEndsAt(text, e, kind))
             IN  [matched |-> TRUE, group |-> SubSeq(text, b, q - 1)]

\* The loop over the synonyms run from the last listed to the first.
RECURSIVE FirstSection_last_listed(_, _, _)
FirstSection_last_listed(text, synonyms, kind) ==
    IF synonyms = <<>> THEN NoMatch
    ELSE LET match == SectionSearch(text, synonyms[Len(synonyms)], kind)
         IN  IF match.matched THEN match
             ELSE FirstSection_last_listed(text, SubSeq(synonyms, 1, Len(synonyms) - 1), kind)

\* The first synonym, in list order, that matches; NoMatch when none does.
RECURSIVE FirstSection(_, _, _)
FirstSection(text, synonyms, kind) ==
    IF synonyms = <<>> THEN NoMatch
    ELSE LET match == SectionSearch(text, Head(synonyms), kind)
         IN  IF match.matched THEN match
             ELSE FirstSection(text, Tail(synonyms), kind)

summary_patterns ==
    << S("summary"), S("objective"), S("profile"),
       <<"meem", "lam", "khah", "sad">>,
       <<"alef", "lam", "heh", "dal", "feh">> >>

exp_patterns ==
    << S("experience"), S("work history"), S("employment"),
       <<"alef", "lam", "khah", "beh", "reh", "tehmarbuta">>,
       <<"alef", "lam", "ain", "meem", "lam">> >>

edu_patterns ==
    << S("education"), S("academic"),
       <<"alef", "lam", "teh", "ain", "lam", "yeh", "meem">>,
       <<"alef", "lam", "dal", "reh", "alef", "seen", "tehmarbuta">> >>

skills_patterns ==
    << S("skills"), S("technical skills"), S("competencies"),
       <<"alef", "lam", "meem", "heh", "alef", "reh", "alef", "teh">>,
       <<"alef", "lam", "khah", "beh", "reh", "alef", "teh">> >>

lang_patterns ==
    << S("languages"),
       <<"alef", "lam", "lam", "ghain", "alef", "teh">> >>

cert_patterns ==
    << S("certifications"), S("certificates"),
       <<"alef", "lam", "sheen", "heh", "alef", "dal", "alef", "teh">> >>

proj_patterns ==
    << S("projects"),
       <<"alef", "lam", "meem", "sheen", "alef", "reh", "yeh", "ain">> >>

\* _extract_summary
_extract_summary(text) ==
    LET match == FirstSection(text, summary_patterns, "summary")
    IN  IF match.matched THEN strip(match.group) ELSE <<>>

exp_triggers ==
    << S("senior"), S("junior"), S("lead"), S("manager"), S("director"),
       S("engineer"), S("developer"), S("analyst"), S("consultant") >>

edu_triggers ==
    << S("bachelor"), S("master"), S("phd"), S("diploma"), S("certificate"),
       S("degree") >>

proj_triggers ==
    << S("project"), S("application"), S("system"), S("platform"),
       S("website"), S("app") >>

\* re.search(r'(a|b|...)', line, re.IGNORECASE)
Triggers(line, triggers) ==
    \E k \in 1..Len(triggers) : In(triggers[k], lower(line))

\* The loop of the segmenters (see SegmentLoop) skipping a blank line without
\* closing the open record.
RECURSIVE SegmentLoop_open_across_blank(_, _, _, _, _, _, _)
SegmentLoop_open_across_blank(lines, i, entries, current_entry, triggers, head, body) ==
    IF i > Len(lines)
    THEN (IF DOMAIN current_entry # {} THEN Append(entries, current_entry) ELSE entries)
    ELSE LET line == strip(lines[i])
         IN  IF line = <<>>
             THEN SegmentLoop_open_across_blank(lines, i + 1, entries, current_entry, triggers, head, body)
             ELSE IF Triggers(line, triggers)
             THEN SegmentLoop_open_across_blank(lines, i + 1,
                              IF DOMAIN current_entry # {} THEN Append(entries, current_entry)
                              ELSE entries,
                              Entry(head, line), triggers, head, body)
             ELSE IF DOMAIN current_entry # {} /\ head \in DOMAIN current_entry
             THEN SegmentLoop_open_across_blank(lines, i + 1, entries,
                              IF body \notin DOMAIN current_entry
                              THEN current_entry @@ Entry(body, line)
                              ELSE [current_entry EXCEPT ![body] = @ \o S(" ") \o line],
                              triggers, head, body)
             ELSE SegmentLoop_open_across_blank(lines, i + 1, entries, current_entry, triggers, head, body)

\* The loop of the segmenters without the guard of its last branch: a line
\* that holds no trigger word goes into current_entry whether or not a record
\* is open.
RECURSIVE SegmentLoop_unguarded(_, _, _, _, _, _, _)
SegmentLoop_unguarded(lines, i, entries, current_entry, triggers, head, body) ==
    IF i > Len(lines)
    THEN (IF DOMAIN current_entry # {} THEN Append(entries, current_entry) ELSE entries)
    ELSE LET line == strip(lines[i])
         IN  IF line = <<>>
             THEN (IF DOMAIN current_entry # {}
                   THEN SegmentLoop_unguarded(lines, i + 1, Append(entries, current_entry), <<>>,
                                    triggers, head, body)
                   ELSE SegmentLoop_unguarded(lines, i + 1, entries, current_entry,
                                    triggers, head, body))
             ELSE IF Triggers(line, triggers)
             THEN SegmentLoop_unguarded(lines, i + 1,
                              IF DOMAIN current_entry # {} THEN Append(entries, current_entry)
                              ELSE entries,
                              Entry(head, line), triggers, head, body)
             ELSE SegmentLoop_unguarded(lines, i + 1, entries,
                              IF body \notin DOMAIN current_entry
                              THEN current_entry @@ Entry(body, line)
                              ELSE [current_entry EXCEPT ![body] = @ \o S(" ") \o line],
                              triggers, head, body)

\* The loop of the segmenters without the append that follows it: a record
\* still open at the end of the input is not emitted.
RECURSIVE SegmentLoop_last_dropped(_, _, _, _, _, _, _)
SegmentLoop_last_dropped(lines, i, entries, current_entry, triggers, head, body) ==
    IF i > Len(lines)
    THEN entries
    ELSE LET line == strip(lines[i])
         IN  IF line = <<>>
             THEN (IF DOMAIN current_entry # {}
                   THEN SegmentLoop_last_dropped(lines, i + 1, Append(entries, current_entry), <<>>,
                                    triggers, head, body)
                   ELSE SegmentLoop_last_dropped(lines, i + 1, entries, current_entry,
                                    triggers, head, body))
             ELSE IF Triggers(line, triggers)
             THEN SegmentLoop_last_dropped(lines, i + 1,
                              IF DOMAIN current_entry # {} THEN Append(entries, current_entry)
                              ELSE entries,
                              Entry(head, line), triggers, head, body)
             ELSE IF DOMAIN current_entry # {} /\ head \in DOMAIN current_entry
             THEN SegmentLoop_last_dropped(lines, i + 1, entries,
                              IF body \notin DOMAIN current_entry
                              THEN current_entry @@ Entry(body, line)
                              ELSE [current_entry EXCEPT ![body] = @ \o S(" ") \o line],
                              triggers, head, body)
             ELSE SegmentLoop_last_dropped(lines, i + 1, entries, current_entry, triggers, head, body)

\* The loop of _parse_experience_entries, _parse_education_entries and
\* _parse_project_entries over the lines from i on: entries emitted so far,
\* current_entry (the empty dict when no record is open).  head is the key
\* of the trigger line ('title' or 'degree'), body the key of the lines that
\* follow it ('description' or 'institution').
RECURSIVE SegmentLoop(_, _, _, _, _, _, _)
SegmentLoop(lines, i, entries, current_entry, triggers, head, body) ==
    IF i > Len(lines)
    THEN (IF DOMAIN current_entry # {} THEN Append(entries, current_entry) ELSE entries)
    ELSE LET line == strip(lines[i])
         IN  IF line = <<>>
             THEN (IF DOMAIN current_entry # {}
                   THEN SegmentLoop(lines, i + 1, Append(entries, current_entry), <<>>,
                                    triggers, head, body)
                   ELSE SegmentLoop(lines, i + 1, entries, current_entry,
                                    triggers, head, body))
             ELSE IF Triggers(line, triggers)
             THEN SegmentLoop(lines, i + 1,
                              IF DOMAIN current_entry # {} THEN Append(entries, current_entry)
                              ELSE entries,
                              Entry(head, line), triggers, head, body)
             ELSE IF DOMAIN current_entry # {} /\ head \in DOMAIN current_entry
             THEN SegmentLoop(lines, i + 1, entries,
                              IF body \notin DOMAIN current_entry
                              THEN current_entry @@ Entry(body, line)
                              ELSE [current_entry EXCEPT ![body] = @ \o S(" ") \o line],
                              triggers, head, body)
             ELSE SegmentLoop(lines, i + 1, entries, current_entry, triggers, head, body)

_parse_experience_entries(exp_text) ==
    SegmentLoop(SplitOn(exp_text, {"\n"}), 1, <<>>, <<>>, exp_triggers, "title", "description")

_parse_education_entries(edu_text) ==
    SegmentLoop(SplitOn(edu_text, {"\n"}), 1, <<>>, <<>>, edu_triggers, "degree", "institution")

_parse_project_entries(proj_text) ==
    SegmentLoop(SplitOn(proj_text, {"\n"}), 1, <<>>, <<>>, proj_triggers, "title", "description")

\* _extract_experience
_extract_experience(text) ==
    LET match == FirstSection(text, exp_patterns, "section")
    IN  IF match.matched THEN _parse_experience_entries(match.group) ELSE <<>>

\* _extract_education
_extract_education(text) ==
    LET match == FirstSection(text, edu_patterns, "section")
    IN  IF match.matched THEN _parse_education_entries(match.group) ELSE <<>>

\* _extract_projects
_extract_projects(text) ==
    LET match == FirstSection(text, proj_patterns, "section")
    IN  IF match.matched THEN _parse_project_entries(match.group) ELSE <<>>

\* A match of r'\s+<word>\s+' starting at i: its length, or 0 when there is
\* none.  Each \s+ takes the whole run of whitespace.
WordDelimAt(s, i, word) ==
    LET r1 == WhiteRun(s, i)
        w == i + r1
        r2 == WhiteRun(s, w + Len(word))
    IN  IF /\ r1 >= 1
           /\ w + Len(word) - 1 <= Len(s)
           /\ SubSeq(s, w, w + Len(word) - 1) = word
           /\ r2 >= 1
        THEN r1 + Len(word) + r2
        ELSE 0

\* re.split(r'\s+<word>\s+', s): the pieces between the matches, found from
\* left to right, each search starting where the previous match ended.
RECURSIVE SplitWordFrom(_, _, _)
SplitWordFrom(s, i, word) ==
    LET Hit(j) == IsSpace(s[j]) /\ WordDelimAt(s, j, word) > 0
    IN  IF ~\E j \in i..Len(s) : Hit(j) THEN <<SubSeq(s, i, Len(s))>>
        ELSE LET j == First(i, Len(s), Hit)
             IN  <<SubSeq(s, i, j - 1)>>
                 \o SplitWordFrom(s, j + WordDelimAt(s, j, word), word)

\* [x.strip() for x in xs if x.strip()]
StripNonEmpty(xs) ==
    SelectSeq([k \in 1..Len(xs) |-> strip(xs[k])], LAMBDA x : x # <<>>)

\* [w.strip() for w in words if len(w.strip()) > 2]
LongWords(words) ==
    SelectSeq([k \in 1..Len(words) |-> strip(words[k])], LAMBDA x : Len(x) > 2)

SkillsLimit == 20

\* _parse_skills_list
_parse_skills_list(skills_text) ==
    Bind(SplitOn(skills_text, {",", "\n", ";"}), LAMBDA by_char :
    Bind(IF Len(by_char) > 1 THEN <<>> ELSE SplitWordFrom(skills_text, 1, S("and")),
         LAMBDA by_and :
    Bind(IF Len(by_char) > 1 \/ Len(by_and) > 1 THEN <<>>
         ELSE SplitWordFrom(skills_text, 1, S("&")), LAMBDA by_amp :
    Bind(IF Len(by_char) > 1 THEN StripNonEmpty(by_char)
         ELSE IF Len(by_and) > 1 THEN StripNonEmpty(by_and)
         ELSE IF Len(by_amp) > 1 THEN StripNonEmpty(by_amp)
         ELSE <<>>, LAMBDA split_skills :
    Bind(IF split_skills = <<>> THEN LongWords(split(skills_text)) ELSE split_skills,
         LAMBDA skills :
    SliceTo(skills, SkillsLimit))))))

\* _extract_skills
_extract_skills(text) ==
    LET match == FirstSection(text, skills_patterns, "section")
    IN  IF match.matched THEN _parse_skills_list(match.group) ELSE <<>>

\* _extract_languages
_extract_languages(text) ==
    LET match == FirstSection(text, lang_patterns, "section")
    IN  IF match.matched THEN _parse_skills_list(match.group) ELSE <<>>

\* _extract_certifications
_extract_certifications(text) ==
    LET match == FirstSection(text, cert_patterns, "section")
    IN  IF match.matched THEN _parse_skills_list(match.group) ELSE <<>>

\* _extract_structure
_extract_structure(raw) ==
    Bind(_clean_text(raw), LAMBDA text :
        [raw_text |-> text,
         contact_info |-> _extract_contact_info(text),
         name |-> _extract_name(text),
         summary |-> _extract_summary(text),
         experience |-> _extract_experience(text),
         education |-> _extract_education(text),
         skills |-> _extract_skills(text),
         languages |-> _extract_languages(text),
         certifications |-> _extract_certifications(text),
         projects |-> _extract_projects(text)])

-----------------------------------------------------------------------------
(* Inputs                                                                  *)

Min2(a, b) == IF a <= b THEN a ELSE b

MaxPool == 8
MaxTopN == 11
MaxJobId == 12

\* Lines a resume text is made of; the first MaxPool of them are used.
ResumeLines ==
    << S("John Doe"),
       S("john.doe@email.com  jane@work.org"),
       S("linkedin.com/in/john-doe +971 (50) 123-4567"),
       S("SUMMARY: Senior engineer, 5 years of experience in Python & AWS"),
       S("Skills: Python, React; Docker"),
       S("Marketing Manager: financial analysis, sales & team management"),
       S("Curriculum Vitae"),
       S(""),
       S("Languages: English, Arabic") >>

PoolSize == IF MaxPool < Len(ResumeLines) THEN MaxPool ELSE Len(ResumeLines)

\* A line of the pool, followed by a newline.
Line(k) == ResumeLines[k] \o S("\n")

\* The texts of at most two lines of the pool.
TextsOfPool ==
    {<<>>} \cup {Line(k) : k \in 1..PoolSize}
           \cup {Line(k) \o Line(j) : k, j \in 1..PoolSize}

\* The sample resume of test_resume_parser.
sample_text ==
    S("\n        John Doe\n        Software Engineer\n        john.doe@email.com\n        +1234567890\n        \n        SUMMARY\n        Experienced software engineer with 5 years of experience in Python and JavaScript.\n        \n        EXPERIENCE\n        Senior Developer at TechCorp (2020-2023)\n        - Developed web applications using React and Node.js\n        - Led team of 5 developers\n        \n        SKILLS\n        Python, JavaScript, React, Node.js, AWS, Docker\n        ")

\* A resume of a senior developer whose skills are Python and AWS.
scenario_text ==
    S("Jane Roe\nSenior Developer\nSkills: Python, AWS\n")

Texts == TextsOfPool \cup {sample_text, scenario_text}

TopNs == (0 - MaxTopN)..MaxTopN

\* The top_n values a ranking is asked with: below minus the catalog size,
\* negative, zero, one, inside the catalog, the catalog size and above it.
MatchTopNs == {0 - MaxTopN, -9, -2, 0, 1, 4, 10, MaxTopN}

JobIds == (0 - MaxJobId)..MaxJobId

Queries == {S("python"), S("DUBAI"), S("Manager"), S("blockchain"), S("")}

Industries == {S("Technology"), S("marketing"), S("Aerospace"), S("")}

\* Postings besides the default ones that the scoring functions are applied to.
ExtraPostings ==
    { [title |-> S(""), company |-> S("Acme"), location |-> S("Remote"),
       salary |-> S(""), experience |-> S("Entry level"), description |-> S(""),
       requirements |-> S(""), job_type |-> S("Part-time"), industry |-> S("Other")],
      [title |-> S("C++ Developer"), company |-> S("Acme"), location |-> S("Remote"),
       salary |-> S(""), experience |-> S("2 years"), description |-> S("Systems work"),
       requirements |-> S("C++, C#, Go, Go"), job_type |-> S("Full-time"),
       industry |-> S("Technology")],
      [title |-> S("Senior Software Engineer"), company |-> S("Acme"),
       location |-> S("Remote"), salary |-> S(""), experience |-> S("10+ years"),
       description |-> S(""), requirements |-> S("Python, AWS, Docker, Python"),
       job_type |-> S("Full-time"), industry |-> S("Technology")],
      [title |-> S("Senior Software Engineer"), company |-> S("Acme"),
       location |-> S("Remote"), salary |-> S(""), experience |-> S("3 years"),
       description |-> S(""), requirements |-> S("Python, AWS, Docker"),
       job_type |-> S("Full-time"), industry |-> S("Technology")] }

Postings == Range(_load_default_jobs) \cup ExtraPostings

\* jobs_data arguments given to the constructor.
ConstructorArgs ==
    { None,
      DataFrame(<<>>),
      DataFrame(SubSeq(_load_default_jobs, 1, 1)),
      DataFrame(SubSeq(_load_default_jobs, 2, 3)),
      List(<<>>),
      List(SubSeq(_load_default_jobs, 1, 1)) }

MaxBodyLines == 4
MaxPieces == 3

\* Lines a section body is made of: two lines that hold a trigger word of
\* each of the three segmenters, a line that holds a degree word only, a line
\* that holds no trigger word, and two blank lines.
SegmentLines ==
    << S("Senior Developer, Master Data Platform"),
       S("  PhD Research ENGINEER (Web App)  "),
       S("Bachelor of Science"),
       S("- Built things"),
       S(""),
       S("   ") >>

\* The section bodies of one to MaxBodyLines lines.
SectionBodies ==
    UNION { { Join(S("\n"), [k \in 1..n |-> SegmentLines[pick[k]]]) :
                pick \in [1..n -> 1..Len(SegmentLines)] } : n \in 1..MaxBodyLines }

\* Pieces and separators a list body is made of.
SkillPieces == << S("Python"), S("Go"), S("") >>

SkillSeparators == << S(", "), S(";"), S("\n"), S(" and "), S(" & "), S(" ") >>

\* pieces[1] seps[1] pieces[2] ... seps[n - 1] pieces[n]
RECURSIVE Interleave(_, _)
Interleave(pieces, seps) ==
    IF Len(pieces) = 1 THEN pieces[1]
    ELSE pieces[1] \o seps[1] \o Interleave(Tail(pieces), Tail(seps))

\* The list body of the ListTokenizer example, and one made of commas only.
tokenizer_example == S("Python, JavaScript; React")

commas_only == S(",,,")

\* The list bodies of one to MaxPieces pieces.
SkillTexts ==
    UNION { { Interleave([k \in 1..n |-> SkillPieces[p[k]]],
                         [k \in 1..(n - 1) |-> SkillSeparators[d[k]]]) :
                p \in [1..n -> 1..Len(SkillPieces)],
                d \in [1..(n - 1) -> 1..Len(SkillSeparators)] } : n \in 1..MaxPieces }
    \cup {tokenizer_example, commas_only}

MaxSectionLines == 3

\* Lines a text with sections is made of: headers of the summary and of the
\* skills section under two synonyms each, a blank line, a line that starts
\* with no letter, and the header of another section.
LocatorLines ==
    << S("Objective: grow"),
       S("Summary: engineer"),
       S("Competencies: Go"),
       S("Skills: Python, AWS"),
       S(""),
       S("- built things"),
       S("Education: BSc") >>

\* The texts of one to MaxSectionLines lines.
LocatorTexts ==
    UNION { { Join(S("\n"), [k \in 1..n |-> LocatorLines[pick[k]]]) :
                pick \in [1..n -> 1..Len(LocatorLines)] } : n \in 1..MaxSectionLines }

MaxLeadLines == 5

\* Lines the head of a resume is made of: two that can be a name (one to be
\* trimmed, one of exactly four words) and three that cannot (a blank line, a
\* line with a word of the blacklist, a line of five words).
NameLines ==
    << S("  Jane Roe "),
       S("A B C D"),
       S(""),
       S("My Resume"),
       S("one two three four five") >>

RejectedLines == {3, 4, 5}

\* The texts of zero to MaxLeadLines copies of a line that cannot be a name,
\* followed by one or two lines of the pool.
NameTexts ==
    { Join(S("\n"), [k \in 1..(lead + Len(tail)) |->
                        IF k <= lead THEN NameLines[r] ELSE NameLines[tail[k - lead]]]) :
        lead \in 0..MaxLeadLines, r \in RejectedLines,
        tail \in UNION { [1..n -> 1..Len(NameLines)] : n \in 1..2 } }

MaxFragment == 16

\* Resume texts whose fragments are scored.
FragmentedTexts ==
    {S("worked for Go, Java"), S("Senior Pythonic"), <<"Alpha", "Sigma", "Alpha">>}

\* A posting whose title and requirements are one Greek word that ends with
\* a sigma.
greek_posting ==
    [title |-> <<"Alpha", "Sigma">>, company |-> S("Acme"), location |-> S("Athens"),
     salary |-> S(""), experience |-> S("2 years"), description |-> S(""),
     requirements |-> <<"Alpha", "Sigma">>, job_type |-> S("Full-time"),
     industry |-> S("Technology")]

\* The postings resume texts are scored against on their own.
ScoringPostings == Postings \cup {greek_posting}

\* The fragments of at most MaxFragment characters of those texts: a text
\* with characters taken off its two ends.
ResumeFragments ==
    {<<>>} \cup
    UNION { UNION { { SubSeq(text, a, b) : b \in a..Min2(Len(text), a + MaxFragment - 1) } :
                    a \in 1..Len(text) } :
            text \in FragmentedTexts }

\* A list body of one token more than the limit of _parse_skills_list.
ManyTokens == Join(S(","), [k \in 1..(SkillsLimit + 1) |-> <<UpperChars[k]>>])

\* Resumes made of one list section of more tokens than the limit.
many_skills == S("Skills: ") \o ManyTokens

many_languages == S("Languages: ") \o ManyTokens

many_certifications == S("Certifications: ") \o ManyTokens

\* A resume of a summary and a skills section, a blank line between them.
two_sections == S("Summary: engineer\n\nSkills: Python, AWS")

\* The resume texts the parser is applied to on its own.
ParserTexts ==
    {many_skills, many_languages, many_certifications, two_sections, sample_text}

-----------------------------------------------------------------------------
(* The state machine: one call at a time                                   *)

Idle == [op |-> "idle"]

\* The methods of JobMatcher that read self.jobs_data after construction.
CatalogReaders ==
    {"match_resume_to_jobs", "get_job_details", "search_jobs",
     "get_jobs_by_industry", "get_available_industries"}

\* The buttons pressed in one session of the front end.
MaxAttempts == 4

\* What st.file_uploader returns: None, or the file the user has chosen.
UploadedFile(name) == [kind |-> "UploadedFile", name |-> name]

Uploads == {None, UploadedFile(S("cv.pdf")), UploadedFile(S("resume.docx"))}

\* The calls of the button handler that can raise, in the order the handler
\* makes them, and "none" for a handler in which none does.
HandlerSteps ==
    <<"NamedTemporaryFile", "parse_resume", "detect_language", "analyze_resume",
      "match_resume_to_jobs", "unlink">>

Outcomes == Range(HandlerSteps) \cup {"none"}

\* The step comes before the results are stored in the session state.
BeforeStoring(step) ==
    \E i \in 1..Len(HandlerSteps) :
        /\ HandlerSteps[i] = step
        /\ \E j \in (i + 1)..Len(HandlerSteps) : HandlerSteps[j] = "unlink"

\* What a component returns for the file uploaded at a press of the button.
Product(component, uploaded_file, attempt) ==
    [kind |-> component, file |-> uploaded_file.name, attempt |-> attempt]

\* The session state after the script has run for the first time.
SessionInit ==
    [analysis_complete |-> FALSE, resume_data |-> None,
     analysis_results |-> None, job_matches |-> None]

\* The four assignments that store the results.
StoreResults(state, resume_data, analysis_results, job_matches) ==
    [state EXCEPT !.resume_data = resume_data,
                  !.analysis_results = analysis_results,
                  !.job_matches = job_matches,
                  !.analysis_complete = TRUE]

\* The except clause of the handler.
OnException(state) == [state EXCEPT !.analysis_complete = FALSE]

\* The handler storing each result as soon as it has it.
ButtonHandler_stores_as_it_goes(state, uploaded_file, attempt, failing) ==
    LET parsed == [state EXCEPT !.resume_data =
                       Product("resume_data", uploaded_file, attempt)]
        analyzed == [parsed EXCEPT !.analysis_results =
                         Product("analysis_results", uploaded_file, attempt)]
        matched == [analyzed EXCEPT !.job_matches =
                        Product("job_matches", uploaded_file, attempt),
                                    !.analysis_complete = TRUE]
    IN  IF failing \in {"NamedTemporaryFile", "parse_resume"} THEN OnException(state)
        ELSE IF failing \in {"detect_language", "analyze_resume"} THEN OnException(parsed)
        ELSE IF failing = "match_resume_to_jobs" THEN OnException(analyzed)
        ELSE IF failing = "unlink" THEN OnException(matched)
        ELSE matched

\* The body of `if st.button(...)`: the session state it leaves when the
\* call named by failing raises.
ButtonHandler(state, uploaded_file, attempt, failing) ==
    IF BeforeStoring(failing)
    THEN OnException(state)
    ELSE LET stored == StoreResults(state,
                                    Product("resume_data", uploaded_file, attempt),
                                    Product("analysis_results", uploaded_file, attempt),
                                    Product("job_matches", uploaded_file, attempt))
         IN  IF failing = "unlink" THEN OnException(stored) ELSE stored

Init ==
    /\ matcher = "none"
    /\ jobs_data = None
    /\ call = Idle
    /\ result = None
    /\ raised = "none"
    /\ built = None
    /\ served = FALSE
    /\ session_state = SessionInit
    /\ attempts = [pressed |-> 0, succeeded |-> 0]

\* JobMatcher(jobs_data=arg)
Construct(arg) ==
    /\ matcher # "ready"
    /\ call = Idle
    /\ LET made == JobMatcherInit(arg)
       IN  /\ matcher' = IF made.raised = "none" THEN "ready" ELSE "raised"
           /\ jobs_data' = made.jobs_data
           /\ raised' = made.raised
           /\ built' = made.jobs_data
    /\ call' = [op |-> "__init__", arg |-> arg]
    /\ result' = None
    /\ served' = FALSE
    /\ UNCHANGED <<session_state, attempts>>

\* parser._extract_structure(text)
ExtractStructure(text) ==
    /\ call = Idle
    /\ call' = [op |-> "_extract_structure", text |-> text]
    /\ result' = _extract_structure(text)
    /\ raised' = "none"
    /\ UNCHANGED <<matcher, jobs_data, built, served, session_state, attempts>>

\* matcher.match_resume_to_jobs(resume_data, top_n) on the Profile the parser
\* has just returned.
MatchResumeToJobs ==
    /\ call.op = "_extract_structure"
    /\ matcher = "ready"
    /\ \E matches \in {SortedMatches(jobs_data, result)} :
       \E top_n \in MatchTopNs :
          /\ call' = [op |-> "match_resume_to_jobs", resume_data |-> result,
                      top_n |-> top_n]
          /\ result' = TopMatches(jobs_data, matches, top_n)
    /\ raised' = "none"
    /\ UNCHANGED <<matcher, jobs_data, built, served, session_state, attempts>>

\* matcher._calculate_job_match_score(resume_text, job) on the text prepared
\* from the Profile the parser has just returned, with the factor scores it
\* computes on its way.
CalculateJobMatchScore ==
    /\ call.op = "_extract_structure"
    /\ matcher = "ready"
    /\ \E resume_text \in {_prepare_resume_text(result)} :
       \E job \in Postings :
       \E factors \in {FactorScores(resume_text, job)} :
          /\ call' = [op |-> "_calculate_job_match_score",
                      resume_text |-> resume_text, job |-> job]
          /\ result' = [factors |-> factors,
                        score |-> FrMin(One, FrMax(Zero, WeightedSum(factors)))]
    /\ raised' = "none"
    /\ UNCHANGED <<matcher, jobs_data, built, served, session_state, attempts>>

\* matcher._calculate_job_match_score(resume_text, job) on a resume text of
\* its own, with the factor scores it computes on its way.
ScoreResumeText ==
    /\ call = Idle
    /\ matcher = "ready"
    /\ \E resume_text \in ResumeFragments :
       \E job \in ScoringPostings :
       \E factors \in {FactorScores(resume_text, job)} :
          /\ call' = [op |-> "_calculate_job_match_score",
                      resume_text |-> resume_text, job |-> job]
          /\ result' = [factors |-> factors,
                        score |-> FrMin(One, FrMax(Zero, WeightedSum(factors)))]
    /\ raised' = "none"
    /\ UNCHANGED <<matcher, jobs_data, built, served, session_state, attempts>>

\* matcher.get_job_details(job_id)
GetJobDetails(job_id) ==
    /\ call = Idle
    /\ matcher = "ready"
    /\ call' = [op |-> "get_job_details", job_id |-> job_id]
    /\ result' = get_job_details(jobs_data, job_id).value
    /\ raised' = get_job_details(jobs_data, job_id).raised
    /\ UNCHANGED <<matcher, jobs_data, built, served, session_state, attempts>>

\* search_jobs cutting the catalog itself down to its first top_n postings
\* (self.jobs_data = self.jobs_data[:top_n]) before it searches.
SearchJobs_cutting_catalog(query, top_n) ==
    /\ call = Idle
    /\ matcher = "ready"
    /\ call' = [op |-> "search_jobs", query |-> query, top_n |-> top_n]
    /\ jobs_data' = DataFrame(SliceTo(jobs_data.rows, top_n))
    /\ result' = search_jobs(jobs_data', query, top_n)
    /\ raised' = "none"
    /\ UNCHANGED <<matcher, built, served, session_state, attempts>>

\* matcher.search_jobs(query, top_n)
SearchJobs(query, top_n) ==
    /\ call = Idle
    /\ matcher = "ready"
    /\ call' = [op |-> "search_jobs", query |-> query, top_n |-> top_n]
    /\ result' = search_jobs(jobs_data, query, top_n)
    /\ raised' = "none"
    /\ UNCHANGED <<matcher, jobs_data, built, served, session_state, attempts>>

\* matcher.get_jobs_by_industry(industry)
GetJobsByIndustry(industry) ==
    /\ call = Idle
    /\ matcher = "ready"
    /\ call' = [op |-> "get_jobs_by_industry", industry |-> industry]
    /\ result' = get_jobs_by_industry(jobs_data, industry)
    /\ raised' = "none"
    /\ UNCHANGED <<matcher, jobs_data, built, served, session_state, attempts>>

\* matcher.get_available_industries()
GetAvailableIndustries ==
    /\ call = Idle
    /\ matcher = "ready"
    /\ call' = [op |-> "get_available_industries"]
    /\ result' = get_available_industries(jobs_data)
    /\ raised' = "none"
    /\ UNCHANGED <<matcher, jobs_data, built, served, session_state, attempts>>

\* parser._extract_name(text)
ExtractName ==
    /\ call = Idle
    /\ \E text \in NameTexts :
          /\ call' = [op |-> "_extract_name", text |-> text]
          /\ result' = _extract_name(text)
    /\ raised' = "none"
    /\ UNCHANGED <<matcher, jobs_data, built, served, session_state, attempts>>

\* parser._extract_summary(text)
ExtractSummary ==
    /\ call = Idle
    /\ \E text \in LocatorTexts :
          /\ call' = [op |-> "_extract_summary", text |-> text]
          /\ result' = _extract_summary(text)
    /\ raised' = "none"
    /\ UNCHANGED <<matcher, jobs_data, built, served, session_state, attempts>>

\* parser._extract_skills(text)
ExtractSkills ==
    /\ call = Idle
    /\ \E text \in LocatorTexts :
          /\ call' = [op |-> "_extract_skills", text |-> text]
          /\ result' = _extract_skills(text)
    /\ raised' = "none"
    /\ UNCHANGED <<matcher, jobs_data, built, served, session_state, attempts>>

\* parser._parse_skills_list(skills_text)
ParseSkillsList ==
    /\ call = Idle
    /\ \E skills_text \in SkillTexts :
          /\ call' = [op |-> "_parse_skills_list", skills_text |-> skills_text]
          /\ result' = _parse_skills_list(skills_text)
    /\ raised' = "none"
    /\ UNCHANGED <<matcher, jobs_data, built, served, session_state, attempts>>

\* parser._parse_experience_entries(exp_text)
ParseExperienceEntries ==
    /\ call = Idle
    /\ \E exp_text \in SectionBodies :
          /\ call' = [op |-> "_parse_experience_entries", text |-> exp_text]
          /\ result' = _parse_experience_entries(exp_text)
    /\ raised' = "none"
    /\ UNCHANGED <<matcher, jobs_data, built, served, session_state, attempts>>

\* parser._parse_education_entries(edu_text)
ParseEducationEntries ==
    /\ call = Idle
    /\ \E edu_text \in SectionBodies :
          /\ call' = [op |-> "_parse_education_entries", text |-> edu_text]
          /\ result' = _parse_education_entries(edu_text)
    /\ raised' = "none"
    /\ UNCHANGED <<matcher, jobs_data, built, served, session_state, attempts>>

\* parser._parse_project_entries(proj_text)
ParseProjectEntries ==
    /\ call = Idle
    /\ \E proj_text \in SectionBodies :
          /\ call' = [op |-> "_parse_project_entries", text |-> proj_text]
          /\ result' = _parse_project_entries(proj_text)
    /\ raised' = "none"
    /\ UNCHANGED <<matcher, jobs_data, built, served, session_state, attempts>>

\* The call returns to its caller; the next call can start.
Return ==
    /\ call # Idle
    /\ call' = Idle
    /\ result' = None
    /\ raised' = "none"
    /\ served' = (served \/ call.op \in CatalogReaders)
    /\ UNCHANGED <<matcher, jobs_data, built, session_state, attempts>>

\* One run of the script of the front end, from the file uploader to the
\* display of the results: the handler of the analyze button runs when a
\* file is there and the button was clicked.
main ==
    /\ call = Idle
    /\ \E uploaded_file \in Uploads :
       \E clicked \in BOOLEAN :
       \E failing \in Outcomes :
          IF uploaded_file # None /\ clicked
          THEN /\ attempts.pressed < MaxAttempts
               /\ session_state' = ButtonHandler(session_state, uploaded_file,
                                                 attempts.pressed + 1, failing)
               /\ attempts' = [pressed |-> attempts.pressed + 1,
                               succeeded |-> IF failing = "none"
                                             THEN attempts.pressed + 1
                                             ELSE attempts.succeeded]
               /\ call' = [op |-> "main", uploaded_file |-> uploaded_file,
                           clicked |-> TRUE, failing |-> failing,
                           session_state |-> session_state]
          ELSE /\ failing = "none"
               /\ call' = [op |-> "main", uploaded_file |-> uploaded_file,
                           clicked |-> FALSE, failing |-> failing,
                           session_state |-> session_state]
               /\ UNCHANGED <<session_state, attempts>>
    /\ result' = None
    /\ raised' = "none"
    /\ UNCHANGED <<matcher, jobs_data, built, served>>

Next ==
    \/ \E arg \in ConstructorArgs : Construct(arg)
    \/ \E text \in Texts : ExtractStructure(text)
    \/ MatchResumeToJobs
    \/ CalculateJobMatchScore
    \/ \E job_id \in JobIds : GetJobDetails(job_id)
    \/ \E query \in Queries, top_n \in TopNs : SearchJobs(query, top_n)
    \/ \E industry \in Industries : GetJobsByIndustry(industry)
    \/ GetAvailableIndustries
    \/ Return

Spec == Init /\ [][Next]_vars

\* The parser applied to a resume text, and its list and record functions
\* each applied to a section body.
ParserNext ==
    \/ \E text \in ParserTexts : ExtractStructure(text)
    \/ ExtractName
    \/ ExtractSummary
    \/ ExtractSkills
    \/ ParseSkillsList
    \/ ParseExperienceEntries
    \/ ParseEducationEntries
    \/ ParseProjectEntries
    \/ Return

ParserSpec == Init /\ [][ParserNext]_vars

\* The scoring function of a matcher built on the default catalog, applied
\* to resume texts of its own.
ScoringNext ==
    \/ \E arg \in {None} : Construct(arg)
    \/ ScoreResumeText
    \/ Return

ScoringSpec == Init /\ [][ScoringNext]_vars

\* The front end alone: script runs of one session.
FrontEndNext ==
    \/ main
    \/ Return

FrontEndSpec == Init /\ [][FrontEndNext]_vars

-----------------------------------------------------------------------------
(* Properties                                                              *)

\* A score between 0 and 1, both included.
InUnit(x) == x.d > 0 /\ 0 <= x.n /\ x.n <= x.d

\* C1: for every resume text and every posting, the keyword, title, skills
\* and experience factor scores each lie in [0,1], and so does the total
\* returned by _calculate_job_match_score.
C1_ScoresInUnit ==
    call.op = "_calculate_job_match_score" =>
        /\ InUnit(result.factors.keyword_score)
        /\ InUnit(result.factors.title_score)
        /\ InUnit(result.factors.skills_score)
        /\ InUnit(result.factors.experience_score)
        /\ InUnit(result.score)

\* A scoring call whose keyword factor is strictly inside (0,1), whose
\* experience factor is 0.8 and whose total is positive.
C1_Witness ==
    /\ call.op = "_calculate_job_match_score"
    /\ 0 < result.factors.keyword_score.n
    /\ result.factors.keyword_score.n < result.factors.keyword_score.d
    /\ result.factors.experience_score = Frac(8, 10)
    /\ 0 < result.score.n

FactorKeys == {"keyword_score", "title_score", "skills_score", "experience_score"}

\* 0.40*keyword + 0.20*title + 0.25*skills + 0.15*experience, clamped to [0,1]
ClampedHundredths(k, t, s, e) ==
    LET sum == FrAdd(FrAdd(FrMul(Frac(40, 100), k), FrMul(Frac(20, 100), t)),
                     FrAdd(FrMul(Frac(25, 100), s), FrMul(Frac(15, 100), e)))
    IN  IF FrLt(sum, Zero) THEN Zero ELSE IF FrLt(One, sum) THEN One ELSE sum

WeightsSumToOne ==
    FrAdd(FrAdd(KeywordWeight, TitleWeight), FrAdd(SkillsWeight, ExperienceWeight)) = One

Min(a, b) == IF a <= b THEN a ELSE b

Max(a, b) == IF a >= b THEN a ELSE b

\* The match_score values of a ranked list never increase from first to last.
NonIncreasing(ms) ==
    \A i \in 1..(Len(ms) - 1) : FrLe(ms[i + 1].match_score, ms[i].match_score)

\* C3 (as stated): for every integer top_n given to match_resume_to_jobs, the
\* returned list has at most min(top_n, |catalog|) entries and its
\* match_score values are non-increasing.
C3_LengthAtMostMin ==
    call.op = "match_resume_to_jobs" =>
        /\ Len(result) <= Min(call.top_n, len(jobs_data))
        /\ NonIncreasing(result)

\* C3 (amended): for every integer top_n given to match_resume_to_jobs, the
\* match_score values of the returned list are non-increasing; the list has
\* min(top_n, |catalog|) entries when top_n >= 0 and max(0, |catalog| + top_n)
\* entries when top_n < 0, hence at most |catalog| entries in every case.
C3_LengthAndOrder ==
    call.op = "match_resume_to_jobs" =>
        /\ NonIncreasing(result)
        /\ Len(result) <= len(jobs_data)
        /\ call.top_n >= 0 => Len(result) = Min(call.top_n, len(jobs_data))
        /\ call.top_n < 0 => Len(result) = Max(0, len(jobs_data) + call.top_n)

\* A ranking asked with a negative top_n that returns several postings whose
\* totals are not all equal.
C3_Witness ==
    /\ call.op = "match_resume_to_jobs"
    /\ call.top_n < 0
    /\ Len(result) >= 2
    /\ FrLt(result[Len(result)].match_score, result[1].match_score)

\* C4: the ranking is stable.  Two postings of the returned list with equal
\* match_score stand in catalog order, and a posting is never returned while
\* an earlier catalog posting with the same match_score is cut off by top_n.
C4_StableRanking ==
    call.op = "match_resume_to_jobs" =>
        /\ \A i, j \in 1..Len(result) :
              (i < j /\ result[i].match_score = result[j].match_score)
                  => result[i].job_id < result[j].job_id
        /\ \E resume_text \in {_prepare_resume_text(call.resume_data)} :
           \E scores \in {[k \in 1..len(jobs_data) |->
                             _calculate_job_match_score(resume_text, jobs_data.rows[k])]} :
              \A j \in 1..Len(result) : \A k \in 1..len(jobs_data) :
                  (k - 1 < result[j].job_id /\ scores[k] = result[j].match_score)
                      => \E i \in 1..(j - 1) : result[i].job_id = k - 1

\* A ranking cut by top_n in which two postings tie on a positive match_score
\* below the best one.
C4_Witness ==
    /\ call.op = "match_resume_to_jobs"
    /\ call.top_n > 0
    /\ call.top_n < len(jobs_data)
    /\ \E i \in 2..(Len(result) - 1) :
          /\ result[i].match_score = result[i + 1].match_score
          /\ 0 < result[i].match_score.n
          /\ FrLt(result[i].match_score, result[1].match_score)

\* The rows of a frame without the combined_text column added on construction.
SuppliedRows(jd) ==
    [i \in 1..Len(jd.rows) |-> [f \in DOMAIN jd.rows[i] \ {"combined_text"} |-> jd.rows[i][f]]]

\* C5: a JobMatcher given an empty catalog is constructed without an
\* exception, and its match_resume_to_jobs, search_jobs and
\* get_jobs_by_industry each return an empty list without raising.
C5_EmptyCatalog ==
    /\ (call.op = "__init__" /\ call.arg # None /\ call.arg.rows = <<>>)
           => (raised = "none" /\ matcher = "ready" /\ len(jobs_data) = 0)
    /\ (matcher = "ready" /\ len(jobs_data) = 0
            /\ call.op \in {"match_resume_to_jobs", "search_jobs", "get_jobs_by_industry"})
           => (raised = "none" /\ result = <<>>)

\* C6: constructing JobMatcher with a supplied non-empty catalog succeeds and
\* the matcher holds exactly the supplied postings; constructing it with no
\* catalog holds the built-in default catalog of ten postings.
C6_SuppliedOrDefaultCatalog ==
    call.op = "__init__" =>
        /\ (call.arg # None /\ call.arg.rows # <<>>)
               => (raised = "none" /\ matcher = "ready"
                   /\ SuppliedRows(jobs_data) = call.arg.rows)
        /\ call.arg = None
               => (raised = "none" /\ matcher = "ready"
                   /\ SuppliedRows(jobs_data) = _load_default_jobs
                   /\ len(jobs_data) = 10)

\* C7: get_job_details returns an empty mapping without raising for every
\* job_id outside 0..|catalog|-1, negative ones included, and
\* get_jobs_by_industry returns an empty list without raising for every
\* industry that no posting has.
C7_OutOfRangeIsEmpty ==
    /\ (call.op = "get_job_details"
            /\ call.job_id \notin 0..(len(jobs_data) - 1))
           => (raised = "none" /\ result = EmptyDict)
    /\ (call.op = "get_jobs_by_industry"
            /\ \A i \in 1..len(jobs_data) :
                  lower(jobs_data.rows[i].industry) # lower(call.industry))
           => (raised = "none" /\ result = <<>>)

ProfileFields ==
    {"raw_text", "contact_info", "name", "summary", "experience", "education",
     "skills", "languages", "certifications", "projects"}

\* No heading of the list occurs in the text, in any letter case.
NoHeading(patterns, text) ==
    \A k \in 1..Len(patterns) : ~In(patterns[k], lower(text))

\* C8: _extract_structure never raises and returns a Profile with every one
\* of its ten fields present, each empty when its pattern does not occur in
\* the text; a text with no contact pattern gives a contact_info with no
\* email, no phone and no linkedin field.
C8_EveryFieldPresent ==
    call.op = "_extract_structure" =>
        /\ raised = "none"
        /\ DOMAIN result = ProfileFields
        /\ DOMAIN result.contact_info \subseteq {"email", "phone", "linkedin"}
        /\ "@" \notin Range(result.raw_text)
               => "email" \notin DOMAIN result.contact_info
        /\ Len(SelectSeq(result.raw_text, LAMBDA c : c \in PhoneClass)) < 10
               => "phone" \notin DOMAIN result.contact_info
        /\ ~In(S("linkedin.com/in/"), lower(result.raw_text))
               => "linkedin" \notin DOMAIN result.contact_info
        /\ result.raw_text = <<>> => result.name = <<>>
        /\ NoHeading(summary_patterns, result.raw_text) => result.summary = <<>>
        /\ NoHeading(exp_patterns, result.raw_text) => result.experience = <<>>
        /\ NoHeading(edu_patterns, result.raw_text) => result.education = <<>>
        /\ NoHeading(skills_patterns, result.raw_text) => result.skills = <<>>
        /\ NoHeading(lang_patterns, result.raw_text) => result.languages = <<>>
        /\ NoHeading(cert_patterns, result.raw_text) => result.certifications = <<>>
        /\ NoHeading(proj_patterns, result.raw_text) => result.projects = <<>>

\* A Profile built from a text with no contact pattern: contact_info has no
\* field, the skills section is found and the summary is not.
C8_Witness ==
    /\ call.op = "_extract_structure"
    /\ "@" \notin Range(call.text)
    /\ Range(call.text) \cap AsciiDigit = {}
    /\ result.contact_info = <<>>
    /\ result.skills # <<>>
    /\ result.summary = <<>>
    /\ result.experience = <<>>

\* C9: when the raw text given to _extract_structure contains an email
\* address, the Profile's contact_info has an email field equal to the first
\* email address of the text.
C9_FirstEmailExtracted ==
    (call.op = "_extract_structure" /\ EmailSearch(call.text).matched) =>
        /\ "email" \in DOMAIN result.contact_info
        /\ result.contact_info.email = EmailSearch(call.text).group

\* C11: the catalog is read-only after construction.  Whatever calls of
\* match_resume_to_jobs, search_jobs, get_job_details, get_jobs_by_industry
\* and get_available_industries have been made, the catalog is the one the
\* constructor left (same postings, same order, same fields), so the result
\* of each such call is the one it gives on the catalog as constructed.
C11_CatalogReadOnly ==
    matcher = "ready" =>
        /\ jobs_data = built
        /\ call.op = "match_resume_to_jobs" =>
               result = match_resume_to_jobs(built, call.resume_data, call.top_n)
        /\ call.op = "search_jobs" =>
               result = search_jobs(built, call.query, call.top_n)
        /\ call.op = "get_job_details" =>
               /\ result = get_job_details(built, call.job_id).value
               /\ raised = get_job_details(built, call.job_id).raised
        /\ call.op = "get_jobs_by_industry" =>
               result = get_jobs_by_industry(built, call.industry)
        /\ call.op = "get_available_industries" =>
               result = get_available_industries(built)

\* A search that finds several postings after an earlier call that read the
\* catalog has returned.
C11_Witness ==
    /\ matcher = "ready"
    /\ served
    /\ call.op = "search_jobs"
    /\ Len(result) >= 2
    /\ len(jobs_data) = 10

\* The scenario: a resume text that contains "Senior Developer", Python and
\* AWS and does not mention Docker, scored against a posting titled "Senior
\* Software Engineer" whose requirements are "Python, AWS, Docker".
Scenario ==
    /\ call.op = "_calculate_job_match_score"
    /\ call.job.title = S("Senior Software Engineer")
    /\ call.job.requirements = S("Python, AWS, Docker")
    /\ In(S("senior developer"), lower(call.resume_text))
    /\ In(S("python"), lower(call.resume_text))
    /\ In(S("aws"), lower(call.resume_text))
    /\ ~In(S("docker"), lower(call.resume_text))

\* C12 (as stated): in the scenario the keyword score is 2/3 and the skills
\* score is 2/2 = 1.
C12_ScenarioSkillsOne ==
    Scenario =>
        /\ result.factors.keyword_score = Frac(2, 3)
        /\ result.factors.skills_score = Frac(2, 2)

\* C12 (amended): in the scenario the keyword score is 2/3 and the skills
\* score is 2/3 too: the posting names three vocabulary skills (python, aws,
\* docker) and the resume has two of them.
C12_ScenarioScores ==
    Scenario =>
        /\ result.factors.keyword_score = Frac(2, 3)
        /\ result.factors.skills_score = Frac(2, 3)

\* The scenario has been scored, on the resume of the senior developer.
C12_Witness ==
    /\ Scenario
    /\ In(S("Skills: Python, AWS"), call.resume_text)
    /\ result.factors.title_score = Frac(1, 3)

SearchedFields == {"title", "company", "description", "requirements"}

\* The lower-cased query is a substring of one of the four lower-cased fields.
QueryMatches(query, job) ==
    \E f \in SearchedFields : In(lower(query), lower(job[f]))

\* C13: search_jobs(query, top_n) returns postings for which the lower-cased
\* query is a substring of the lower-cased title, company, description or
\* requirements, and no other posting; it returns them in catalog order with
\* none of them skipped, each with its job_id and its nine fields; for a
\* count top_n >= 0 it returns the first top_n of them (all of them when
\* there are fewer).
C13_SearchInCatalogOrder ==
    call.op = "search_jobs" =>
        \E hits \in {Ascending({i \in 1..len(jobs_data) :
                                  QueryMatches(call.query, jobs_data.rows[i])})} :
            /\ Len(result) <= Len(hits)
            /\ \A k \in 1..Len(result) :
                  /\ DOMAIN result[k] = JobFields \cup {"job_id"}
                  /\ result[k].job_id = hits[k] - 1
                  /\ \A f \in JobFields : result[k][f] = jobs_data.rows[hits[k]][f]
            /\ call.top_n >= 0 => Len(result) = Min(call.top_n, Len(hits))

\* A search cut by top_n after a posting that matches by its description and
\* requirements while a later posting, matching by its requirements only, is
\* left out.
C13_Witness ==
    /\ call.op = "search_jobs"
    /\ call.top_n = 1
    /\ Len(result) = 1
    /\ ~In(lower(call.query), lower(result[1].title))
    /\ In(lower(call.query), lower(result[1].description))
    /\ \E i \in 1..len(jobs_data) :
          /\ i - 1 > result[1].job_id
          /\ In(lower(call.query), lower(jobs_data.rows[i].requirements))
          /\ ~In(lower(call.query), lower(jobs_data.rows[i].description))
          /\ ~In(lower(call.query), lower(jobs_data.rows[i].title))

SegmenterOps ==
    {"_parse_experience_entries", "_parse_education_entries", "_parse_project_entries"}

\* The trigger words of a segmenter and the key it gives the trigger line.
TriggersOf(op) ==
    IF op = "_parse_experience_entries" THEN exp_triggers
    ELSE IF op = "_parse_education_entries" THEN edu_triggers
    ELSE proj_triggers

HeadOf(op) == IF op = "_parse_education_entries" THEN "degree" ELSE "title"

BodyOf(op) == IF op = "_parse_education_entries" THEN "institution" ELSE "description"

\* The lines of a section body.
LinesOf(text) == SplitOn(text, {"\n"})

\* A line of whitespace only.
IsBlank(line) == \A k \in 1..Len(line) : IsSpace(line[k])

\* A line that is not blank and holds one of the trigger words, in any case.
IsTrigger(line, op) ==
    /\ ~IsBlank(line)
    /\ \E low \in {lower(line)} :
          \E k \in 1..Len(TriggersOf(op)) : In(TriggersOf(op)[k], low)

\* The positions of the trigger lines, in increasing order.
TriggerLines(lines, op) ==
    Ascending({i \in 1..Len(lines) : IsTrigger(lines[i], op)})

\* The body holds exactly two trigger lines, with a blank line between them.
TwoTriggersApart(lines, op) ==
    \E at \in {TriggerLines(lines, op)} :
        /\ Len(at) = 2
        /\ \E b \in (at[1] + 1)..(at[2] - 1) : IsBlank(lines[b])

\* C14: a segmenter given a section body with two trigger lines separated by
\* a blank line produces exactly two records, in the order of the lines, each
\* having its trigger line (stripped) as title; for the education segmenter
\* the trigger line is the record's degree.
C14_TwoRecords ==
    call.op \in SegmenterOps =>
        \E lines \in {LinesOf(call.text)} :
        \E at \in {TriggerLines(lines, call.op)} :
            (Len(at) = 2 /\ \E b \in (at[1] + 1)..(at[2] - 1) : IsBlank(lines[b])) =>
                /\ Len(result) = 2
                /\ \A k \in 1..2 :
                      /\ HeadOf(call.op) \in DOMAIN result[k]
                      /\ result[k][HeadOf(call.op)] = strip(lines[at[k]])

\* Two different degree lines with a blank line between them, the first one
\* followed by a line that becomes its institution.
C14_Witness ==
    /\ call.op = "_parse_education_entries"
    /\ TwoTriggersApart(LinesOf(call.text), call.op)
    /\ Len(result) = 2
    /\ DOMAIN result[1] = {"degree", "institution"}
    /\ DOMAIN result[2] = {"degree"}
    /\ result[1].degree # result[2].degree

CharDelimiters == {",", "\n", ";"}

\* The body holds a comma, a newline or a semicolon.
HasCharDelimiter(text) == \E k \in 1..Len(text) : text[k] \in CharDelimiters

\* The body holds the word between two whitespace characters.
HasWordDelimiter(text, word) ==
    \E before, after \in WhiteChars : In(<<before>> \o word \o <<after>>, text)

HasDelimiter(text) ==
    \/ HasCharDelimiter(text)
    \/ HasWordDelimiter(text, S("and"))
    \/ HasWordDelimiter(text, S("&"))

\* The trimmed non-empty pieces of the body split on the first delimiter
\* class it holds, of which there must be one.
PiecesOfFirstClass(text) ==
    StripNonEmpty(IF HasCharDelimiter(text) THEN SplitOn(text, CharDelimiters)
                  ELSE IF HasWordDelimiter(text, S("and"))
                  THEN SplitWordFrom(text, 1, S("and"))
                  ELSE SplitWordFrom(text, 1, S("&")))

\* C15: _parse_skills_list splits the whole body on the first delimiter class
\* it holds (comma/newline/semicolon, then the word "and", then "&") and
\* returns the trimmed non-empty pieces in order, up to the limit of 20, with
\* the delimiters of a later class left inside them; "Python, JavaScript;
\* React" yields exactly ["Python", "JavaScript", "React"].
C15_PiecesOfFirstClass ==
    call.op = "_parse_skills_list" =>
        /\ HasDelimiter(call.skills_text) =>
               result = SliceTo(PiecesOfFirstClass(call.skills_text), SkillsLimit)
        /\ call.skills_text = tokenizer_example =>
               result = <<S("Python"), S("JavaScript"), S("React")>>

\* C20: the delimiter split and the whitespace fallback are mutually
\* exclusive.  A body that holds none of the three delimiter classes is
\* split on whitespace, keeping the tokens longer than 2 characters; a body
\* that holds a delimiter is never whitespace-tokenized, every token returned
\* for it is one of its trimmed pieces.
C20_FallbackOnlyWithoutDelimiter ==
    call.op = "_parse_skills_list" =>
        /\ ~HasDelimiter(call.skills_text) =>
               result = SliceTo(LongWords(split(call.skills_text)), SkillsLimit)
        /\ HasDelimiter(call.skills_text) =>
               \A k \in 1..Len(result) :
                   \E j \in 1..Len(PiecesOfFirstClass(call.skills_text)) :
                       result[k] = PiecesOfFirstClass(call.skills_text)[j]

\* The word tokens of the lower-cased requirements of the posting being scored.
RequirementTokens == WordTokens(lower(call.job.requirements))

\* C16 (as stated): the keyword factor is the number of distinct requirement
\* word tokens that occur in the lower-cased resume text, a repeated token
\* counted once, divided by the total number of requirement word tokens; it
\* is 0 when the requirements have no word token.
C16_DistinctTokensMatched ==
    call.op = "_calculate_job_match_score" =>
        \E tokens \in {RequirementTokens} :
            result.factors.keyword_score =
                IF tokens = <<>> THEN Zero
                ELSE Frac(Cardinality({t \in Range(tokens) :
                                          In(t, lower(call.resume_text))}),
                          Len(tokens))

\* C16 (amended): the keyword factor is the number of requirement word
\* tokens that occur in the lower-cased resume text, a token counted as many
\* times as the requirements repeat it, divided by the total number of
\* requirement word tokens; it is 0 when the requirements have no word token.
C16_TokensMatched ==
    call.op = "_calculate_job_match_score" =>
        \E tokens \in {RequirementTokens} :
            result.factors.keyword_score =
                IF tokens = <<>> THEN Zero
                ELSE Frac(Cardinality({k \in 1..Len(tokens) :
                                          In(tokens[k], lower(call.resume_text))}),
                          Len(tokens))

\* A posting whose requirements repeat a token that the resume text holds,
\* and hold another token that it does not.
C16_Witness ==
    /\ call.op = "_calculate_job_match_score"
    /\ \E tokens \in {RequirementTokens} :
          /\ \E i, j \in 1..Len(tokens) :
                i < j /\ tokens[i] = tokens[j] /\ In(tokens[i], lower(call.resume_text))
          /\ \E k \in 1..Len(tokens) : ~In(tokens[k], lower(call.resume_text))
    /\ 0 < result.factors.keyword_score.n

\* The curated vocabulary, and its terms that occur in a lower-cased text.
Vocabulary == Range(technical_skills)

VocabularyIn(text) == {t \in Vocabulary : In(t, lower(text))}

\* C17: the skills factor is |V_job \cap V_resume| / |V_job|, with V_job the
\* vocabulary terms that occur in the lower-cased requirements and V_resume
\* those that occur in the lower-cased resume text; it is 0 when V_job is
\* empty.  Nothing but these two sets of vocabulary terms decides it.
C17_SkillsOverVocabulary ==
    call.op = "_calculate_job_match_score" =>
        \E V_job \in {VocabularyIn(call.job.requirements)} :
        \E V_resume \in {VocabularyIn(call.resume_text)} :
            result.factors.skills_score =
                IF V_job = {} THEN Zero
                ELSE Frac(Cardinality(V_job \cap V_resume), Cardinality(V_job))

\* A posting that asks for vocabulary terms the resume has and for others it
\* has not, scored on a resume that also has a vocabulary term the posting
\* does not ask for.
C17_Witness ==
    /\ call.op = "_calculate_job_match_score"
    /\ \E V_job \in {VocabularyIn(call.job.requirements)} :
       \E V_resume \in {VocabularyIn(call.resume_text)} :
          /\ V_job \cap V_resume # {}
          /\ V_job \ V_resume # {}
          /\ V_resume \ V_job # {}
    /\ 0 < result.factors.skills_score.n
    /\ result.factors.skills_score.n < result.factors.skills_score.d

\* The text holds "<min>[-<max>] years": digits, then hyphens or whitespace
\* if any, then digits if any, then whitespace if any, then "year".
HasYearsPattern(text) ==
    \E i \in 1..Len(text), y \in 1..(Len(text) - 3) :
        /\ i < y
        /\ SubSeq(text, y, y + 3) = S("year")
        /\ \E a \in i..(y - 1) : \E b \in a..(y - 1) : \E c \in b..(y - 1) :
              /\ \A k \in i..a : IsDigit(text[k])
              /\ \A k \in (a + 1)..b : text[k] = "-" \/ IsSpace(text[k])
              /\ \A k \in (b + 1)..c : IsDigit(text[k])
              /\ \A k \in (c + 1)..(y - 1) : IsSpace(text[k])

\* The resume text holds one of the experience-phrase indicators.
HasIndicator(text) ==
    \E k \in 1..Len(experience_indicators) : In(experience_indicators[k], lower(text))

\* C18: the experience factor is 0.5 when the posting's experience text has
\* no "<min>[-<max>] years" pattern; otherwise 0 when the resume text holds
\* none of the experience-phrase indicators; otherwise 0.8, whatever the
\* numbers of the pattern are.
C18_ExperienceThreeValues ==
    call.op = "_calculate_job_match_score" =>
        result.factors.experience_score =
            IF ~HasYearsPattern(lower(call.job.experience)) THEN Frac(5, 10)
            ELSE IF ~HasIndicator(call.resume_text) THEN Zero
            ELSE Frac(8, 10)

\* A resume that states 5 years of experience scored 0.8 against a posting
\* that asks for 5 to 8 years.
C18_Witness ==
    /\ call.op = "_calculate_job_match_score"
    /\ call.job.experience = S("5-8 years")
    /\ In(S("5 years of experience"), lower(call.resume_text))
    /\ result.factors.experience_score = Frac(8, 10)

\* The record a trigger line opens: the line, stripped, as its title, and as
\* its description the stripped lines that follow it up to the next blank
\* line, the next trigger line or the end of the body, joined by spaces (no
\* description when there is no such line).
RecordOpenedAt(lines, t, op) ==
    LET Closes(e) == e > Len(lines) \/ IsBlank(lines[e]) \/ IsTrigger(lines[e], op)
        end == First(t + 1, Len(lines) + 1, Closes)
        described == [k \in 1..(end - t - 1) |-> strip(lines[t + k])]
    IN  Entry(HeadOf(op), strip(lines[t]))
        @@ (IF end > t + 1 THEN Entry(BodyOf(op), Join(S(" "), described)) ELSE <<>>)

\* C19: the segmenter emits one record for each trigger line, in the order
\* of the lines, and nothing else: no opened record is lost or emitted twice.
\* A trigger line closes the record that is open and opens the next one,
\* titled by it; a blank line closes the open record, after which lines are
\* dropped until the next trigger line; the end of the body closes the
\* record still open.
C19_OneRecordPerTrigger ==
    call.op \in SegmenterOps =>
        \E lines \in {LinesOf(call.text)} :
        \E at \in {TriggerLines(lines, call.op)} :
            /\ Len(result) = Len(at)
            /\ \A k \in 1..Len(at) : result[k] = RecordOpenedAt(lines, at[k], call.op)

\* A body without a blank line: a trigger line and its description, closed
\* by a second trigger line whose record, with its description, is still
\* open at the end.
C19_Witness ==
    /\ call.op = "_parse_project_entries"
    /\ \E lines \in {LinesOf(call.text)} :
          /\ Len(lines) = 4
          /\ \A k \in 1..4 : ~IsBlank(lines[k])
          /\ IsTrigger(lines[1], call.op) /\ ~IsTrigger(lines[2], call.op)
          /\ IsTrigger(lines[3], call.op) /\ ~IsTrigger(lines[4], call.op)
          /\ lines[1] # lines[3]
    /\ Len(result) = 2
    /\ DOMAIN result[1] = {"title", "description"}
    /\ DOMAIN result[2] = {"title", "description"}

\* The trimmed non-empty pieces of a body split on comma, newline and
\* semicolon.
CommaPieces(text) == StripNonEmpty(SplitOn(text, CharDelimiters))

\* The body of the section of the normalized text that the patterns locate.
ListBody(patterns) == FirstSection(result.raw_text, patterns, "section")

\* C21: the skills list of a Profile never has more than 20 items, the first
\* 20 tokens of the skills body in order, while the languages and
\* certifications lists are not capped: a body with more than 20 tokens
\* yields all of them.
C21_OnlySkillsCapped ==
    call.op = "_extract_structure" =>
        /\ Len(result.skills) <= SkillsLimit
        /\ \E body \in {ListBody(skills_patterns)} :
              (body.matched /\ HasCharDelimiter(body.group)) =>
                  result.skills = SliceTo(CommaPieces(body.group), SkillsLimit)
        /\ \E body \in {ListBody(lang_patterns)} :
              (body.matched /\ HasCharDelimiter(body.group)) =>
                  result.languages = CommaPieces(body.group)
        /\ \E body \in {ListBody(cert_patterns)} :
              (body.matched /\ HasCharDelimiter(body.group)) =>
                  result.certifications = CommaPieces(body.group)

\* C22: for every raw text the output of _clean_text (the raw_text of the
\* Profile) is trimmed, holds only allow-listed characters and no run of two
\* or more whitespace characters; the empty text gives the empty text; and
\* normalizing the output again returns it unchanged.
C22_Normalized ==
    call.op = "_extract_structure" =>
        \E out \in {result.raw_text} :
            /\ out = strip(out)
            /\ \A i \in 1..Len(out) : Allowed(out[i])
            /\ \A i \in 1..(Len(out) - 1) : ~(IsSpace(out[i]) /\ IsSpace(out[i + 1]))
            /\ call.text = <<>> => out = <<>>
            /\ _clean_text(out) = out

\* The synonym occurs in the text, whatever the case of its letters.
Occurs(synonym, text) == In(lower(synonym), lower(text))

\* The position of the first occurrence of the synonym in the text.
FirstOccurrence(synonym, text) ==
    CHOOSE i \in 1..(Len(text) - Len(synonym) + 1) :
        /\ SubSeq(lower(text), i, i + Len(synonym) - 1) = lower(synonym)
        /\ \A j \in 1..(i - 1) : SubSeq(lower(text), j, j + Len(synonym) - 1) # lower(synonym)

\* The synonyms of the section a locator call looks for, and the kind of
\* its lookahead.
SynonymsOf(op) == IF op = "_extract_summary" THEN summary_patterns ELSE skills_patterns

KindOf(op) == IF op = "_extract_summary" THEN "summary" ELSE "section"

\* What the extractor makes of a captured body.
Extracted(op, body) ==
    IF op = "_extract_summary" THEN strip(body) ELSE _parse_skills_list(body)

\* C23: the locator returns the body captured for the first synonym, in list
\* order, that occurs anywhere in the text, even when a synonym listed later
\* occurs earlier in the text; the result is empty when no synonym occurs.
C23_FirstListedSynonymWins ==
    call.op \in {"_extract_summary", "_extract_skills"} =>
        \E synonyms \in {SynonymsOf(call.op)} :
        \E listed \in {{k \in 1..Len(synonyms) : Occurs(synonyms[k], call.text)}} :
            /\ listed = {} => result = <<>>
            /\ \A k \in listed :
                  (\A j \in listed : k <= j) =>
                      result = Extracted(call.op,
                                   SectionSearch(call.text, synonyms[k], KindOf(call.op)).group)

\* A summary located under "summary" in a text where "objective", listed
\* after it, occurs before it.
C23_Witness ==
    /\ call.op = "_extract_summary"
    /\ Occurs(S("summary"), call.text)
    /\ Occurs(S("objective"), call.text)
    /\ FirstOccurrence(S("objective"), call.text) < FirstOccurrence(S("summary"), call.text)
    /\ result = S("engineer")

\* The positions of the text where the synonym starts, whatever the case of
\* its letters.
HeaderPositions(synonym, text) ==
    LET low == lower(text)
    IN  {i \in 1..(Len(text) - Len(synonym) + 1) :
            SubSeq(low, i, i + Len(synonym) - 1) = lower(synonym)}

\* C24: the body captured for a section header ends at the next blank line,
\* the next apparent section header (a line that starts with a letter) or the
\* end of the text, whichever comes first; and in a Profile built from a text
\* whose summary section is followed by its only skills header, the summary
\* does not hold the skills header.
C24_BodyEndsBeforeNextSection ==
    /\ call.op \in {"_extract_summary", "_extract_skills"} =>
           \E synonyms \in {SynonymsOf(call.op)} :
           \E listed \in {{k \in 1..Len(synonyms) : Occurs(synonyms[k], call.text)}} :
               \A k \in listed :
                   (\A j \in listed : k <= j) =>
                       result = Extracted(call.op,
                                    SectionSearch(call.text, synonyms[k], "summary").group)
    /\ call.op = "_extract_structure" =>
           \E summary_at \in {HeaderPositions(S("summary"), result.raw_text)} :
           \E skills_at \in {HeaderPositions(S("skills"), result.raw_text)} :
               (/\ summary_at # {}
                /\ Cardinality(skills_at) = 1
                /\ \A i \in summary_at, j \in skills_at : i < j)
                   => ~Occurs(S("skills"), result.summary)

\* The line, trimmed, is not empty, has at most 4 whitespace-separated words
\* and holds none of the blacklist words, whatever the case of its letters.
CanBeName(line) ==
    /\ strip(line) # <<>>
    /\ Len(split(line)) <= 4
    /\ \A k \in 1..Len(name_keywords) : ~Occurs(name_keywords[k], line)

\* C25: _extract_name returns the first of the first 5 lines of the text
\* that is non-empty, has at most 4 words and holds none of the blacklist
\* words (the line as trimmed), and the empty name when there is no such
\* line among the first 5; no line after the fifth is ever returned.
C25_FirstNameLineOfFive ==
    call.op = "_extract_name" =>
        \E lines \in {LinesOf(call.text)} :
        \E names \in {{k \in 1..Min(5, Len(lines)) : CanBeName(lines[k])}} :
            /\ names = {} => result = <<>>
            /\ \A k \in names : (\A j \in names : k <= j) => result = strip(lines[k])

\* A name found on the fifth line, after four lines that cannot be a name
\* and before a sixth line that can.
C25_Witness ==
    /\ call.op = "_extract_name"
    /\ Len(LinesOf(call.text)) = 6
    /\ \A k \in 1..4 : ~CanBeName(LinesOf(call.text)[k])
    /\ LinesOf(call.text)[6] = S("A B C D")
    /\ result = S("Jane Roe")

\* C26: in every Profile returned by _extract_structure the raw_text holds
\* no newline; so each of experience, education and projects holds at most
\* one record, and the name is non-empty only when the whole normalized text
\* has at most 4 words.
C26_OneLineProfile ==
    call.op = "_extract_structure" =>
        /\ \A i \in 1..Len(result.raw_text) : result.raw_text[i] # "\n"
        /\ Len(result.experience) <= 1
        /\ Len(result.education) <= 1
        /\ Len(result.projects) <= 1
        /\ result.name # <<>> => Len(split(result.raw_text)) <= 4

\* A Profile of a text of several lines, one of its first five a name, that
\* has one experience record and no name.
C26_Witness ==
    /\ call.op = "_extract_structure"
    /\ Len(LinesOf(call.text)) > 5
    /\ _extract_name(call.text) # <<>>
    /\ result.name = <<>>
    /\ Len(result.experience) = 1
    /\ Len(split(result.raw_text)) > 4

\* Line i is read while no record is open: every trigger line before it is
\* followed by a blank line before it.
ReadWhileIdle(lines, i, op) ==
    \A t \in 1..(i - 1) :
        IsTrigger(lines[t], op) => \E b \in (t + 1)..(i - 1) : IsBlank(lines[b])

\* The positions of the lines that hold no trigger word and are read while a
\* record is open, in increasing order.
DescribingLines(lines, op) ==
    Ascending({i \in 1..Len(lines) :
                  /\ ~IsBlank(lines[i])
                  /\ ~IsTrigger(lines[i], op)
                  /\ ~ReadWhileIdle(lines, i, op)})

\* The bodies (description, institution) of the records that have one, in
\* order.
BodiesOf(records, op) ==
    [k \in 1..Len(SelectSeq(records, LAMBDA r : BodyOf(op) \in DOMAIN r)) |->
        SelectSeq(records, LAMBDA r : BodyOf(op) \in DOMAIN r)[k][BodyOf(op)]]

\* C27: the records a segmenter emits correspond one-to-one and in order to
\* the trigger lines of the body: there are as many records as trigger lines,
\* the title (degree) of the k-th record is the k-th trigger line, and the
\* text of the records besides their titles is made of the lines read while a
\* record is open, so that a line that holds no trigger word and is read
\* while idle is in no record.
C27_RecordsFollowTriggers ==
    call.op \in SegmenterOps =>
        \E lines \in {LinesOf(call.text)} :
        \E at \in {TriggerLines(lines, call.op)} :
        \E kept \in {DescribingLines(lines, call.op)} :
            /\ Len(result) = Len(at)
            /\ \A k \in 1..Len(result) :
                  /\ DOMAIN result[k] \subseteq {HeadOf(call.op), BodyOf(call.op)}
                  /\ HeadOf(call.op) \in DOMAIN result[k]
                  /\ result[k][HeadOf(call.op)] = strip(lines[at[k]])
            /\ Join(S(" "), BodiesOf(result, call.op))
                   = Join(S(" "), [j \in 1..Len(kept) |-> strip(lines[kept[j]])])

\* A body of four lines: a trigger line and the line that describes it, a
\* blank line, and a line without trigger word that is read while idle.
C27_Witness ==
    /\ call.op = "_parse_experience_entries"
    /\ \E lines \in {LinesOf(call.text)} :
          /\ Len(lines) = 4
          /\ IsTrigger(lines[1], call.op)
          /\ ~IsBlank(lines[2]) /\ ~IsTrigger(lines[2], call.op)
          /\ IsBlank(lines[3])
          /\ ~IsBlank(lines[4]) /\ ~IsTrigger(lines[4], call.op)
    /\ Len(result) = 1
    /\ "description" \in DOMAIN result[1]

\* C28: on a non-empty catalog, match_resume_to_jobs with top_n >= |catalog|
\* returns exactly one result per posting: as many results as postings, their
\* job_ids pairwise distinct catalog indices, the posting fields of each
\* equal to those of the catalog entry its job_id names.  With a smaller
\* top_n >= 0 it returns the first top_n results of that full ranking.
C28_FullRankingAndPrefixes ==
    (call.op = "match_resume_to_jobs" /\ len(jobs_data) > 0) =>
        /\ call.top_n >= len(jobs_data) =>
               /\ Len(result) = len(jobs_data)
               /\ \A i, j \in 1..Len(result) : i # j => result[i].job_id # result[j].job_id
               /\ \A i \in 1..Len(result) :
                     /\ result[i].job_id \in 0..(len(jobs_data) - 1)
                     /\ \A field \in JobFields :
                           result[i][field] = jobs_data.rows[result[i].job_id + 1][field]
        /\ (call.top_n >= 0 /\ call.top_n < len(jobs_data)) =>
               result = SubSeq(match_resume_to_jobs(jobs_data, call.resume_data,
                                                    len(jobs_data)),
                               1, call.top_n)

\* A full ranking of the ten default postings that does not start with the
\* first posting of the catalog.
C28_Witness ==
    /\ call.op = "match_resume_to_jobs"
    /\ len(jobs_data) = 10
    /\ call.top_n >= len(jobs_data)
    /\ Len(result) = 10
    /\ result[1].job_id # 0

\* The resume text of the call with its first character taken off, and with
\* its last.
OneShorter(text) == {SubSeq(text, 2, Len(text)), SubSeq(text, 1, Len(text) - 1)}

\* C29: scoring is monotone in the resume text.  For every posting and every
\* resume text r', each of the four factor scores and the total score of r'
\* is at least the one of r, for r the text r' with one character taken off
\* either end; every text that occurs in r' is reached from r' by such
\* steps, so the same holds for every r that occurs in r'.
C29_MonotoneInResumeText ==
    (call.op = "_calculate_job_match_score" /\ call.resume_text # <<>>) =>
        \A shorter \in OneShorter(call.resume_text) :
            \E factors \in {FactorScores(shorter, call.job)} :
                /\ \A key \in FactorKeys : FrLe(factors[key], result.factors[key])
                /\ FrLe(FrMin(One, FrMax(Zero, WeightedSum(factors))), result.score)

\* The three results kept in the session state.
ResultKeys == {"resume_data", "analysis_results", "job_matches"}

\* C30: in the session state of the front end, after any sequence of presses
\* of the analyze button, analysis_complete is true only if resume_data,
\* analysis_results and job_matches are all set and all three were made by
\* the most recent press whose handler ran through; and a script run whose
\* handler failed in parse_resume, analyze_resume or match_resume_to_jobs has
\* left analysis_complete false and the three results as they were when the
\* run began.
C30_SessionStateConsistent ==
    /\ session_state.analysis_complete =>
           /\ attempts.succeeded > 0
           /\ \A key \in ResultKeys :
                 /\ session_state[key] # None
                 /\ session_state[key].kind = key
                 /\ session_state[key].attempt = attempts.succeeded
           /\ \A key \in ResultKeys :
                 session_state[key].file = session_state.resume_data.file
    /\ (/\ call.op = "main"
        /\ call.clicked
        /\ call.failing \in {"parse_resume", "analyze_resume", "match_resume_to_jobs"}) =>
           /\ ~session_state.analysis_complete
           /\ \A key \in ResultKeys : session_state[key] = call.session_state[key]

\* An analysis of one file succeeded, and the analysis of another file that
\* came after it has just failed in analyze_resume: the results of the first
\* are still there.
C30_Witness ==
    /\ call.op = "main"
    /\ call.clicked
    /\ call.failing = "analyze_resume"
    /\ call.session_state.analysis_complete
    /\ attempts.succeeded > 0
    /\ attempts.pressed > attempts.succeeded
    /\ session_state.resume_data # None
    /\ session_state.resume_data.file # call.uploaded_file.name

====
